---------------------------- MODULE Spec2Model ----------------------------
(***************************************************************************)
(* A model of the Unity Catalog function client: the SQL statement         *)
(* builder (get_execute_function_sql_stmt), the statement execution and    *)
(* polling of DatabricksFunctionClient._execute_uc_function, the interval  *)
(* encoding (convert_timedelta_to_interval_str) and the parameter          *)
(* validation (validate_input_params, validate_param).                     *)
(*                                                                         *)
(* Python values are tagged records: field t is the Python type name.      *)
(* A Python dict is a sequence of [k, v] entries in insertion order.       *)
(***************************************************************************)
EXTENDS Integers, Sequences, FiniteSets, TLC

VARIABLES
    function_info,          \* the FunctionInfo the operation works on
    parameters,             \* the caller's parameters mapping (a dict object)
    \* ---- get_execute_function_sql_stmt (one loop iteration per step)
    stmt_pc,                \* "idle" | "loop" | "done"
    param_idx,              \* index of the next declared parameter to visit
    use_named_args,
    args,                   \* List[str]: the argument clauses emitted so far
    output_params,          \* List[StatementParameterListItem]
    statement,              \* the ParameterizedStatement returned, or None
    \* ---- DatabricksFunctionClient._execute_uc_function
    client,                 \* warehouse_id and the execute_statement signature
    pandas_importable,      \* whether `import pandas` succeeds in this process
    pc,                     \* "idle" | "submitted" | "polling" | "asking" | "done" | "raised"
    calls,                  \* how many times the caller has invoked the method
    submitted,              \* the execute_statement calls made, in order
    response,               \* the last response observed, or None
    retry_cnt,
    events,                 \* the time.sleep and get_statement calls of this
                            \* invocation, in the order they were made
    result,                 \* the FunctionExecutionResult returned, or None
    raised,                 \* the exception raised, or None
    \* ---- convert_timedelta_to_interval_str
    delta,                  \* the datetime.timedelta passed as time_val, or None
    interval_str,           \* the str returned, or None
    \* ---- BaseFunctionClient.validate_input_params
    validate_pc,            \* "idle" | "called" | "returned" | "raised"
    validate_raised,        \* the ValueError raised (with the reports it carries), or None
    validate_self,          \* the class of the client that validates, "" when idle
    \* ---- parse_docstring (one loop iteration per step)
    docstring,              \* the str passed, as its characters
    doc_pc,                 \* "idle" | "called" | "loop" | "returned" | "raised"
    lines,                  \* docstring.strip().splitlines() + [""]
    line_idx,               \* index in lines of the next line of the loop
    state,                  \* State.DESCRIPTION | ARGS | RETURNS | END
    description_lines,
    parsed_params,
    returns,
    current_param,
    param_description_lines,
    return_description_lines,
    param_indent,
    return_indent,
    doc_result,             \* the DocstringInfo returned or the ValueError raised
    \* ---- get_function, list_functions and process_function_names
    pages,                  \* what the remote catalog answers to the list requests
    remote_calls,           \* the requests sent to the remote catalog, in order
    get_name,               \* the name passed to get_function, or None
    get_result,             \* what get_function returned or raised, or None
    function_names,         \* the List[str] passed to process_function_names
    tools_dict,             \* the dict passed to it, which it updates and returns
    names_pc,               \* "idle" | "loop" | "listing" | "returned" | "raised"
    name_idx,               \* index in function_names of the name of this iteration
    token,                  \* the page token of the while loop
    names_raised,           \* the ValueError raised, or None
    environ,                \* os.environ["UC_LIST_FUNCTIONS_MAX_RESULTS"], None when unset
    list_max_results,       \* the local max_results of process_function_names, None before line 139
    \* ---- DatabricksFunctionClient.create_function and its spark session
    spark,                  \* self.spark: None or the session
    cluster_id,             \* self.cluster_id
    dbconnect,              \* the databricks-connect installed: "not installed" |
                            \* "serverless" | "cluster only"
    create_call,            \* the arguments of the create_function call, or None
    create_pc,              \* "idle" | "connect" | "statement" | "get" | "returned" | "raised"
    create_result,          \* what create_function returned or raised, or None
    session_raised,         \* what the caller's own set_default_spark_session raised, or None
    \* ---- set_uc_function_client and get_uc_function_client, called by threads
    uc_function_client,     \* the process-wide reference
    client_lock,            \* the thread that holds the mutex, or 0
    programs,               \* per thread, the calls it makes in order
    thread_pc,              \* per thread: "ready" | "locked" | "writing" | "unlock" | "done"
    op_idx,                 \* per thread, the index of its current call
    thread_got              \* per thread, what its last get returned

stmt_vars == <<stmt_pc, param_idx, use_named_args, args, output_params, statement>>
exec_vars == <<client, pandas_importable, pc, calls, submitted, response, retry_cnt, events,
               result, raised>>
interval_vars == <<delta, interval_str>>
validate_vars == <<validate_pc, validate_raised, validate_self>>
doc_vars == <<docstring, doc_pc, lines, line_idx, state, description_lines, parsed_params,
              returns, current_param, param_description_lines, return_description_lines,
              param_indent, return_indent, doc_result>>
create_vars == <<spark, cluster_id, dbconnect, create_call, create_pc, create_result,
                 session_raised>>
catalog_vars == <<pages, remote_calls, get_name, get_result, function_names, tools_dict,
                  names_pc, name_idx, token, names_raised, environ,
                  list_max_results, create_vars>>
slot_vars == <<uc_function_client, client_lock, programs, thread_pc, op_idx, thread_got>>
vars == <<function_info, parameters, stmt_vars, exec_vars, interval_vars, validate_vars,
          doc_vars, catalog_vars, slot_vars>>

-----------------------------------------------------------------------------
(* Python values *)

None == [t |-> "NoneType"]
PyStr(s) == [t |-> "str", v |-> s]
PyInt(n) == [t |-> "int", v |-> n]
PyList(xs) == [t |-> "list", v |-> xs]
PyTuple(xs) == [t |-> "tuple", v |-> xs]
PyDict(d) == [t |-> "dict", v |-> d]
PyBytes(bs) == [t |-> "bytes", v |-> bs]
PyDate(y, m, d) == [t |-> "date", year |-> y, month |-> m, day |-> d]
PyTimedelta(d, s, us) == [t |-> "timedelta", days |-> d, seconds |-> s, microseconds |-> us]
PyDecimal(u, sc) == [t |-> "Decimal", unscaled |-> u, scale |-> sc]

IsNone(x) == x.t = "NoneType"

(* the character U+0060 of a Python string, written as its escape: a string  *)
(* of this language cannot hold the character itself                         *)
Backquote == "\\x60"

(* dict operations: `k in d`, d[k], d.pop(k, default), d[k] = v *)
Entry(key, val) == [k |-> key, v |-> val]
DictKeys(d) == {d[i].k : i \in DOMAIN d}
DictHas(d, key) == key \in DictKeys(d)
DictGet(d, key) == d[CHOOSE i \in DOMAIN d : d[i].k = key].v
DictPopValue(d, key, default) == IF DictHas(d, key) THEN DictGet(d, key) ELSE default
DictPop(d, key) == SelectSeq(d, LAMBDA e : e.k /= key)
DictSet(d, key, val) ==
    IF DictHas(d, key)
    THEN [i \in DOMAIN d |-> IF d[i].k = key THEN Entry(key, val) ELSE d[i]]
    ELSE Append(d, Entry(key, val))

(* str.join *)
RECURSIVE Join(_, _)
Join(strs, sep) ==
    IF strs = <<>> THEN ""
    ELSE IF Len(strs) = 1 THEN strs[1]
    ELSE strs[1] \o sep \o Join(Tail(strs), sep)

(* zero-padding to two and four digits, as date.isoformat renders its fields *)
Pad2(n) == IF n < 10 THEN "0" \o ToString(n) ELSE ToString(n)
Pad4(n) ==
    IF n < 10 THEN "000" \o ToString(n)
    ELSE IF n < 100 THEN "00" \o ToString(n)
    ELSE IF n < 1000 THEN "0" \o ToString(n)
    ELSE ToString(n)
PyDatetime(y, m, d, hh, mm, ss) ==
    [t |-> "datetime", year |-> y, month |-> m, day |-> d,
     hour |-> hh, minute |-> mm, second |-> ss]
isoformat(d) ==
    Pad4(d.year) \o "-" \o Pad2(d.month) \o "-" \o Pad2(d.day)
    \o (IF d.t = "datetime"
        THEN "T" \o Pad2(d.hour) \o ":" \o Pad2(d.minute) \o ":" \o Pad2(d.second)
        ELSE "")

(* json.dumps of the values the model passes for ARRAY, MAP and STRUCT:     *)
(* ints, strings, lists and tuples of these, dicts with string keys.        *)
RECURSIVE json_dumps(_)
json_dumps(x) ==
    CASE x.t = "int" -> ToString(x.v)
      [] x.t = "str" -> "\"" \o x.v \o "\""
      [] x.t \in {"list", "tuple"} ->
            "[" \o Join([i \in DOMAIN x.v |-> json_dumps(x.v[i])], ", ") \o "]"
      [] x.t = "dict" ->
            "{" \o Join([i \in DOMAIN x.v |->
                           "\"" \o x.v[i].k \o "\": " \o json_dumps(x.v[i].v)], ", ")
                \o "}"

-----------------------------------------------------------------------------
(* Characters of str values.  TLC compares and concatenates strings but does *)
(* not index them, so the operations that read a str character by character  *)
(* (base64 decoding, startswith/endswith, ISO parsing) work on the character  *)
(* sequence Chars(s), looked up in the pool of strings the model passes.      *)

INTERVAL_chars == <<"I", "N", "T", "E", "R", "V", "A", "L">>
DAY_TO_SECOND_chars == <<"D", "A", "Y", " ", "T", "O", " ", "S", "E", "C", "O", "N", "D">>
YEAR_TO_MONTH_chars == <<"Y", "E", "A", "R", " ", "T", "O", " ", "M", "O", "N", "T", "H">>

StringPool ==
    { <<>>,
      <<"S", "G", "V", "s", "b", "G", "8", "=">>,         \* base64 of b"Hello"
      <<"S", "G", "V", "s", "b", "G", "8">>,              \* its padding removed
      <<"a", "b", "c", "d">>,
      <<"a", "b", "=", "=">>,
      <<"a", "b", "=">>,
      <<"a", "=", "b", "c">>,
      <<"H", "e", "l", "l", "o", "!">>,
      <<"2", "0", "2", "4", "-", "0", "1", "-", "0", "7">>,
      <<"2", "0", "2", "4", "-", "0", "8", "-", "1", "9", "T",
        "1", "1", ":", "0", "2", ":", "0", "3">>,
      <<"0", "7", "/", "0", "1", "/", "2", "0", "2", "4">>,
      INTERVAL_chars \o <<" ", "'", "0", " ", "0", ":", "1", "6", ":", "4", "0", ".",
                          "1", "2", "3", "4", "5", "6", "'", " ">> \o DAY_TO_SECOND_chars,
      INTERVAL_chars \o <<" ", "'", "1", "0", "-", "0", "'", " ">> \o YEAR_TO_MONTH_chars }

Chars(s) == CHOOSE c \in StringPool : Join(c, "") = s

startswith(c, prefix) ==
    Len(c) >= Len(prefix) /\ SubSeq(c, 1, Len(prefix)) = prefix
endswith(c, suffix) ==
    Len(c) >= Len(suffix) /\ SubSeq(c, Len(c) - Len(suffix) + 1, Len(c)) = suffix

DigitChars == <<"0", "1", "2", "3", "4", "5", "6", "7", "8", "9">>
IsDigit(ch) == \E i \in DOMAIN DigitChars : DigitChars[i] = ch
Base64Alphabet ==
    {"A", "B", "C", "D", "E", "F", "G", "H", "I", "J", "K", "L", "M", "N", "O", "P", "Q",
     "R", "S", "T", "U", "V", "W", "X", "Y", "Z", "a", "b", "c", "d", "e", "f", "g", "h",
     "i", "j", "k", "l", "m", "n", "o", "p", "q", "r", "s", "t", "u", "v", "w", "x", "y",
     "z", "0", "1", "2", "3", "4", "5", "6", "7", "8", "9", "+", "/"}

(* base64.b64decode(s, validate=True) succeeds: only alphabet characters,   *)
(* then the padding, which completes the last group of four.                *)
b64decode_ok(c) ==
    LET data == SelectSeq(c, LAMBDA ch : ch /= "=")
        pads == Len(c) - Len(data)
    IN  /\ \A i \in DOMAIN c : c[i] \in Base64Alphabet \cup {"="}
        /\ \A i \in DOMAIN c : c[i] = "=" => i > Len(data)
        /\ \/ Len(data) % 4 = 0 /\ pads = 0
           \/ Len(data) % 4 = 2 /\ pads = 2
           \/ Len(data) % 4 = 3 /\ pads = 1

is_base64_encoded(s) == b64decode_ok(Chars(s))

(* datetime.datetime.fromisoformat(s) succeeds, for the two shapes the       *)
(* callers of this library pass: YYYY-MM-DD and YYYY-MM-DDTHH:MM:SS.         *)
IsoShape(c, shape) ==
    /\ Len(c) = Len(shape)
    /\ \A i \in DOMAIN c : IF shape[i] = "d" THEN IsDigit(c[i]) ELSE c[i] = shape[i]
fromisoformat_ok(c) ==
    \/ IsoShape(c, <<"d", "d", "d", "d", "-", "d", "d", "-", "d", "d">>)
    \/ IsoShape(c, <<"d", "d", "d", "d", "-", "d", "d", "-", "d", "d", "T",
                     "d", "d", ":", "d", "d", ":", "d", "d">>)

-----------------------------------------------------------------------------
(* unitycatalog/ai/utils.py *)

(* str(n) of an int, character by character *)
RECURSIVE NatChars(_)
NatChars(n) ==
    IF n < 10 THEN <<DigitChars[n + 1]>>
    ELSE Append(NatChars(n \div 10), DigitChars[(n % 10) + 1])
IntChars(n) == IF n < 0 THEN <<"-">> \o NatChars(0 - n) ELSE NatChars(n)

(* the text between the quotes of the interval literal *)
IntervalBodyChars(time_val) ==
    LET days == time_val.days
        hours == time_val.seconds \div 3600
        remainder == time_val.seconds % 3600
        minutes == remainder \div 60
        seconds == remainder % 60
        microseconds == time_val.microseconds
    IN  IntChars(days) \o <<" ">> \o IntChars(hours) \o <<":">> \o IntChars(minutes)
        \o <<":">> \o IntChars(seconds) \o <<".">> \o IntChars(microseconds)

convert_timedelta_to_interval_str(time_val) ==
    "INTERVAL '" \o Join(IntervalBodyChars(time_val), "") \o "' DAY TO SECOND"

SQL_TYPE_TO_PYTHON_TYPE_MAPPING ==
    [ARRAY |-> {"list", "tuple"},
     BINARY |-> {"bytes", "str"},
     BOOLEAN |-> {"bool"},
     BYTE |-> {"int"},
     CHAR |-> {"str"},
     DATE |-> {"date", "str"},
     DECIMAL |-> {"Decimal", "float"},
     DOUBLE |-> {"float"},
     FLOAT |-> {"float"},
     INT |-> {"int"},
     INTERVAL |-> {"timedelta", "str"},
     LONG |-> {"int"},
     MAP |-> {"dict"},
     NULL |-> {"NoneType"},
     SHORT |-> {"int"},
     STRING |-> {"str"},
     STRUCT |-> {"dict"},
     TABLE_TYPE |-> {"str"},
     TIMESTAMP |-> {"datetime", "str"},
     TIMESTAMP_NTZ |-> {"datetime", "str"},
     USER_DEFINED_TYPE |-> {"object"}]

(* column_type_to_python_type: the accepted Python types, or a ValueError   *)
column_type_supported(column_type) == column_type \in DOMAIN SQL_TYPE_TO_PYTHON_TYPE_MAPPING
column_type_to_python_type(column_type) == SQL_TYPE_TO_PYTHON_TYPE_MAPPING[column_type]

(* isinstance(value, types): bool is a subclass of int, datetime of date,    *)
(* and every class of object.                                                *)
PyBases(tname) ==
    {tname, "object"} \cup (IF tname = "bool" THEN {"int"} ELSE {})
                      \cup (IF tname = "datetime" THEN {"date"} ELSE {})
isinstance(value, types) == PyBases(value.t) \cap types /= {}

is_time_type(column_type) == column_type \in {"DATE", "TIMESTAMP", "TIMESTAMP_NTZ"}

(* validate_param: None when the value is accepted, else the ValueError text *)
validate_param(param, column_type, param_type_text) ==
    IF is_time_type(column_type) /\ isinstance(param, {"str"})
    THEN IF fromisoformat_ok(Chars(param.v)) THEN None
         ELSE PyStr("Invalid datetime string: " \o param.v \o ", expecting ISO format.")
    ELSE IF column_type = "INTERVAL"
    THEN IF isinstance(param, {"timedelta"}) /\ param_type_text /= "interval day to second"
         THEN PyStr("Invalid interval type text: " \o param_type_text
                    \o ", expecting 'interval day to second', "
                    \o "python timedelta can only be used for day-time interval.")
         ELSE IF /\ isinstance(param, {"str"})
                 /\ ~(/\ startswith(Chars(param.v), INTERVAL_chars)
                      /\ endswith(Chars(param.v), DAY_TO_SECOND_chars))
         THEN PyStr("Invalid interval string: " \o param.v \o ", expecting format "
                    \o Backquote
                    \o "INTERVAL '[+|-] d[...] [h]h:[m]m:[s]s.ms[ms][ms][us][us][us]' "
                    \o "DAY TO SECOND" \o Backquote \o ".")
         ELSE None
    ELSE IF /\ column_type = "BINARY"
            /\ isinstance(param, {"str"})
            /\ ~is_base64_encoded(param.v)
    THEN PyStr("The string input for column type BINARY must be base64 encoded, "
               \o "invalid input: " \o param.v \o ".")
    ELSE None

-----------------------------------------------------------------------------
(* unitycatalog/functions/databricks.py *)

EXECUTE_FUNCTION_ARG_NAME == "__execution_args__"
DEFAULT_EXECUTE_FUNCTION_ARGS ==
    <<Entry("wait_timeout", PyStr("30s")),
      Entry("row_limit", PyInt(100)),
      Entry("byte_limit", PyInt(4096))>>

(* DatabricksFunctionClient._validate_param_type: None, or the ValueError    *)
(* repr() of a Python class, and of the value_python_type of a column type *)
class_repr(tname) ==
    "<class '"
    \o (IF tname \in {"date", "datetime", "timedelta"} THEN "datetime." \o tname
        ELSE IF tname = "Decimal" THEN "decimal.Decimal"
        ELSE tname)
    \o "'>"

python_type_repr(column_type) ==
    LET pair(a, b) == "(" \o class_repr(a) \o ", " \o class_repr(b) \o ")"
    IN  IF column_type = "ARRAY" THEN pair("list", "tuple")
        ELSE IF column_type = "BINARY" THEN pair("bytes", "str")
        ELSE IF column_type = "DATE" THEN pair("date", "str")
        ELSE IF column_type = "DECIMAL" THEN pair("Decimal", "float")
        ELSE IF column_type = "INTERVAL" THEN pair("timedelta", "str")
        ELSE IF column_type \in {"TIMESTAMP", "TIMESTAMP_NTZ"} THEN pair("datetime", "str")
        ELSE class_repr(CHOOSE tn \in SQL_TYPE_TO_PYTHON_TYPE_MAPPING[column_type] : TRUE)

(* lines 244-252: None when the value is accepted, else the ValueError text *)
validate_param_type(value, param_info) ==
    IF ~isinstance(value, column_type_to_python_type(param_info.type_name))
    THEN PyStr("Parameter " \o param_info.name \o " should be of type "
               \o param_info.type_name \o " (corresponding python type "
               \o python_type_repr(param_info.type_name) \o "), but got "
               \o class_repr(value.t))
    ELSE validate_param(value, param_info.type_name, param_info.type_text)

is_scalar(function) == function.data_type /= "TABLE_TYPE"

StatementParameterListItem(n, val, ty) == [name |-> n, value |-> val, type |-> ty]

PyFloat(u, sc) == [t |-> "float", unscaled |-> u, scale |-> sc]

(* the expression and the bindings of one provided parameter: lines 465-523 *)
ParamExpr(param_info, param_value) ==
    IF param_info.type_name \in {"ARRAY", "MAP", "STRUCT"}
    THEN "from_json(:" \o param_info.name \o ", :" \o param_info.name \o "_type)"
    ELSE IF param_info.type_name = "BINARY"
    THEN "unbase64(:" \o param_info.name \o ")"
    ELSE ":" \o param_info.name

(* ParamBindings with the two bindings of a complex value in the wrong order, *)
(* and no other change                                                        *)
ParamBindings_type_first(param_info, param_value) ==
    IF param_info.type_name \in {"ARRAY", "MAP", "STRUCT"}
    THEN <<StatementParameterListItem(param_info.name \o "_type",
                                      PyStr(param_info.type_text), None),
           StatementParameterListItem(param_info.name, PyStr(json_dumps(param_value)), None)>>
    ELSE IF param_info.type_name = "BINARY"
    THEN <<StatementParameterListItem(param_info.name, param_value, None)>>
    ELSE <<StatementParameterListItem(
               param_info.name,
               IF is_time_type(param_info.type_name) /\ ~isinstance(param_value, {"str"})
               THEN PyStr(isoformat(param_value))
               ELSE IF param_info.type_name = "INTERVAL" /\ ~isinstance(param_value, {"str"})
               THEN PyStr(convert_timedelta_to_interval_str(param_value))
               ELSE param_value,
               PyStr(param_info.type_text))>>

ParamBindings(param_info, param_value) ==
    IF param_info.type_name \in {"ARRAY", "MAP", "STRUCT"}
    THEN <<StatementParameterListItem(param_info.name, PyStr(json_dumps(param_value)), None),
           StatementParameterListItem(param_info.name \o "_type",
                                      PyStr(param_info.type_text), None)>>
    ELSE IF param_info.type_name = "BINARY"
    THEN <<StatementParameterListItem(param_info.name, param_value, None)>>
    ELSE IF is_time_type(param_info.type_name)
    THEN <<StatementParameterListItem(
               param_info.name,
               IF isinstance(param_value, {"str"}) THEN param_value
               ELSE PyStr(isoformat(param_value)),
               PyStr(param_info.type_text))>>
    ELSE IF param_info.type_name = "INTERVAL"
    THEN <<StatementParameterListItem(
               param_info.name,
               IF ~isinstance(param_value, {"str"})
               THEN PyStr(convert_timedelta_to_interval_str(param_value))
               ELSE param_value,
               PyStr(param_info.type_text))>>
    ELSE <<StatementParameterListItem(
               param_info.name,
               IF param_info.type_name = "DECIMAL" /\ isinstance(param_value, {"Decimal"})
               THEN PyFloat(param_value.unscaled, param_value.scale)
               ELSE param_value,
               PyStr(param_info.type_text))>>

(* StmtLoopBody that goes back to positional mode after one named argument *)
StmtLoopBody_positional_again(st, param_info, params) ==
    IF ~DictHas(params, param_info.name)
    THEN [st EXCEPT !.use_named_args = TRUE]
    ELSE LET param_value == DictGet(params, param_info.name)
             arg_clause ==
                 (IF st.use_named_args THEN param_info.name \o " => " ELSE "")
                 \o ParamExpr(param_info, param_value)
         IN  [st EXCEPT !.args = Append(@, arg_clause),
                        !.output_params = @ \o ParamBindings(param_info, param_value),
                        !.use_named_args = FALSE]

(* one iteration of the loop over function.input_params.parameters:          *)
(* st = [use_named_args, args, output_params]                                *)
StmtLoopBody(st, param_info, params) ==
    IF ~DictHas(params, param_info.name)
    THEN [st EXCEPT !.use_named_args = TRUE]
    ELSE LET param_value == DictGet(params, param_info.name)
             arg_clause ==
                 (IF st.use_named_args THEN param_info.name \o " => " ELSE "")
                 \o ParamExpr(param_info, param_value)
         IN  [st EXCEPT !.args = Append(@, arg_clause),
                        !.output_params = @ \o ParamBindings(param_info, param_value)]

(* StmtPrelude that calls a table function through IDENTIFIER as well *)
StmtPrelude_identifier_always(function) ==
    [part |-> "SELECT IDENTIFIER(:function_name)(",
     output_params |-> <<StatementParameterListItem(
                             "function_name", PyStr(function.full_name), None)>>]

(* lines 443-456: the call pattern and the function_name binding *)
StmtPrelude(function) ==
    IF is_scalar(function)
    THEN [part |-> "SELECT IDENTIFIER(:function_name)(",
          output_params |-> <<StatementParameterListItem(
                                  "function_name", PyStr(function.full_name), None)>>]
    ELSE [part |-> "SELECT * FROM " \o function.full_name \o "(",
          output_params |-> <<>>]

(* the condition of line 454 *)
HasArgs(function, params) ==
    /\ params /= <<>>
    /\ ~IsNone(function.input_params)
    /\ ~IsNone(function.input_params.parameters)
    /\ function.input_params.parameters.v /= <<>>

DeclaredParams(function) ==
    IF IsNone(function.input_params) THEN <<>>
    ELSE IF IsNone(function.input_params.parameters) THEN <<>>
    ELSE function.input_params.parameters.v

(* lines 525-528 *)
StmtFinish(function, st) ==
    [t |-> "ParameterizedStatement",
     statement |-> StmtPrelude(function).part \o Join(st.args, ",") \o ")",
     parameters |-> st.output_params]

RECURSIVE StmtLoop(_, _, _, _)
StmtLoop(declared, params, i, st) ==
    IF i > Len(declared) THEN st
    ELSE StmtLoop(declared, params, i + 1, StmtLoopBody(st, declared[i], params))

StmtStart(function) ==
    [use_named_args |-> FALSE, args |-> <<>>,
     output_params |-> StmtPrelude(function).output_params]

get_execute_function_sql_stmt(function, params) ==
    StmtFinish(function,
               IF HasArgs(function, params)
               THEN StmtLoop(DeclaredParams(function), params, 1, StmtStart(function))
               ELSE StmtStart(function))

-----------------------------------------------------------------------------
(* The functions and the values the statement builder is run on *)

FunctionParameterInfo(n, tname, ttext, default) ==
    [name |-> n, type_name |-> tname, type_text |-> ttext, parameter_default |-> default]
FunctionParameterInfos(ps) ==
    [t |-> "FunctionParameterInfos", parameters |-> PyList(ps)]
FunctionInfo(fname, dtype, ips) ==
    [full_name |-> fname, data_type |-> dtype, input_params |-> ips]

(* the declared parameter lists, before defaults are assigned *)
Signatures ==
    { [full_name |-> "cat.sch.add", data_type |-> "INT",
       params |-> <<[name |-> "x", type_name |-> "INT", type_text |-> "int"],
                    [name |-> "y", type_name |-> "INT", type_text |-> "int"]>>],
      [full_name |-> "ml.test.f_struct", data_type |-> "STRING",
       params |-> <<[name |-> "s", type_name |-> "STRUCT",
                     type_text |-> "struct<a:smallint,c:int>"],
                    [name |-> "b", type_name |-> "BINARY", type_text |-> "binary"],
                    [name |-> "d", type_name |-> "DATE", type_text |-> "date"]>>],
      [full_name |-> "ml.test.f_array", data_type |-> "STRING",
       params |-> <<[name |-> "arr", type_name |-> "ARRAY", type_text |-> "array<tinyint>"],
                    [name |-> "m", type_name |-> "MAP",
                     type_text |-> "map<string,array<int>>"],
                    [name |-> "i", type_name |-> "INTERVAL",
                     type_text |-> "interval day to second"]>>],
      [full_name |-> "ml.test.f_decimal", data_type |-> "STRING",
       params |-> <<[name |-> "dec", type_name |-> "DECIMAL", type_text |-> "decimal(10,2)"],
                    [name |-> "str", type_name |-> "STRING", type_text |-> "string"],
                    [name |-> "ts", type_name |-> "TIMESTAMP", type_text |-> "timestamp"]>>],
      [full_name |-> "ml.test.weekdays", data_type |-> "TABLE_TYPE",
       params |-> <<[name |-> "start", type_name |-> "DATE", type_text |-> "date"],
                    [name |-> "end", type_name |-> "DATE", type_text |-> "date"]>>],
      [full_name |-> "cat.sch.tag", data_type |-> "STRING",
       params |-> <<[name |-> "v", type_name |-> "ARRAY", type_text |-> "array<tinyint>"],
                    [name |-> "v_type", type_name |-> "STRING", type_text |-> "string"],
                    [name |-> "function_name", type_name |-> "STRING",
                     type_text |-> "string"]>>] }

(* the values a caller may pass for a parameter of each type, valid or not *)
CandidateValues(type_name) ==
    CASE type_name = "INT" -> {PyInt(1), PyInt(2)}
      [] type_name = "STRUCT" -> {PyDict(<<Entry("a", PyInt(1)), Entry("c", PyInt(4))>>)}
      [] type_name = "ARRAY" ->
            {PyList(<<PyInt(1), PyInt(2), PyInt(3)>>), PyTuple(<<PyStr("a")>>)}
      [] type_name = "MAP" -> {PyDict(<<Entry("a", PyList(<<PyInt(1), PyInt(2)>>))>>)}
      [] type_name = "BINARY" ->
            {PyStr("SGVsbG8="), PyStr("abcd"), PyStr("SGVsbG8"), PyStr("Hello!"),
             PyBytes(<<72, 101, 108, 108, 111>>)}
      [] type_name = "DATE" ->
            {PyDate(2024, 1, 1), PyStr("2024-01-07"), PyStr("07/01/2024")}
      [] type_name = "TIMESTAMP" ->
            {PyDatetime(2024, 8, 19, 11, 2, 3), PyStr("2024-08-19T11:02:03")}
      [] type_name = "INTERVAL" ->
            {PyTimedelta(0, 1000, 123456),
             PyStr("INTERVAL '0 0:16:40.123456' DAY TO SECOND"),
             PyStr("INTERVAL '10-0' YEAR TO MONTH")}
      [] type_name = "DECIMAL" -> {PyDecimal(12345, 2), PyFloat(12345, 2)}
      [] type_name = "STRING" -> {PyStr("abcd")}

(* all orderings of a finite set, as sequences *)
RECURSIVE Orderings(_)
Orderings(S) ==
    IF S = {} THEN {<<>>}
    ELSE UNION {{<<x>> \o o : o \in Orderings(S \ {x})} : x \in S}

(* the functions of a signature: every choice of the parameters that carry   *)
(* a default                                                                 *)
FunctionsOf(sig) ==
    { FunctionInfo(sig.full_name, sig.data_type,
          FunctionParameterInfos(
              [i \in DOMAIN sig.params |->
                  FunctionParameterInfo(sig.params[i].name, sig.params[i].type_name,
                      sig.params[i].type_text,
                      IF i \in withDefault THEN PyStr("default") ELSE None)]))
      : withDefault \in SUBSET DOMAIN sig.params }

(* the dicts a caller may pass: some of the declared names, in any           *)
(* insertion order, each with a candidate value                              *)
DictsOver(declared) ==
    UNION { UNION { { [j \in DOMAIN order |-> Entry(declared[order[j]].name, vals[order[j]])]
                      : vals \in [chosen -> UNION {CandidateValues(declared[i].type_name)
                                                   : i \in chosen}] }
                    : order \in Orderings(chosen) }
            : chosen \in SUBSET DOMAIN declared }

(* what execute_function checks before it calls _execute_uc_function: the    *)
(* required parameters are provided and every provided value is valid        *)
ValidatedInput(function, params) ==
    \A i \in DOMAIN DeclaredParams(function) :
        LET param_info == DeclaredParams(function)[i]
        IN  IF DictHas(params, param_info.name)
            THEN validate_param_type(DictGet(params, param_info.name), param_info) = None
            ELSE ~IsNone(param_info.parameter_default)

StmtInputs ==
    { <<f, d>> \in UNION {FunctionsOf(sig) \X DictsOver(sig.params) : sig \in Signatures}
        : ValidatedInput(f, d) }

-----------------------------------------------------------------------------
(* get_execute_function_sql_stmt, one loop iteration per step *)

StmtIdle ==
    /\ stmt_pc = "idle"
    /\ param_idx = 0
    /\ use_named_args = FALSE
    /\ args = <<>>
    /\ output_params = <<>>
    /\ statement = None

StmtState == [use_named_args |-> use_named_args, args |-> args,
              output_params |-> output_params]

(* lines 443-456, and lines 525-528 when there is no argument to emit *)
StmtBegin ==
    /\ stmt_pc = "idle"
    /\ LET st == StmtStart(function_info)
       IN  /\ use_named_args' = st.use_named_args
           /\ args' = st.args
           /\ output_params' = st.output_params
           /\ IF HasArgs(function_info, parameters)
              THEN /\ stmt_pc' = "loop"
                   /\ param_idx' = 1
                   /\ statement' = None
              ELSE /\ stmt_pc' = "done"
                   /\ param_idx' = 0
                   /\ statement' = StmtFinish(function_info, st)
    /\ UNCHANGED <<function_info, parameters, exec_vars, interval_vars, validate_vars,
                   doc_vars, catalog_vars, slot_vars>>

(* lines 457-524 for one declared parameter, and lines 525-528 after the last *)
StmtParam ==
    /\ stmt_pc = "loop"
    /\ LET declared == DeclaredParams(function_info)
           st == StmtLoopBody(StmtState, declared[param_idx], parameters)
       IN  /\ use_named_args' = st.use_named_args
           /\ args' = st.args
           /\ output_params' = st.output_params
           /\ param_idx' = param_idx + 1
           /\ IF param_idx = Len(declared)
              THEN /\ stmt_pc' = "done"
                   /\ statement' = StmtFinish(function_info, st)
              ELSE /\ stmt_pc' = "loop"
                   /\ statement' = None
    /\ UNCHANGED <<function_info, parameters, exec_vars, interval_vars, validate_vars,
                   doc_vars, catalog_vars, slot_vars>>

NextStmt == StmtBegin \/ StmtParam

-----------------------------------------------------------------------------
ExecIdle ==
    /\ client = None
    /\ pandas_importable = TRUE
    /\ pc = "idle"
    /\ calls = 0
    /\ submitted = <<>>
    /\ response = None
    /\ retry_cnt = 0
    /\ events = <<>>
    /\ result = None
    /\ raised = None

IntervalIdle ==
    /\ delta = None
    /\ interval_str = None

ValidateIdle ==
    /\ validate_pc = "idle"
    /\ validate_raised = None
    /\ validate_self = ""

DocLocalsUnset ==
    /\ lines = <<>>
    /\ line_idx = 0
    /\ state = "DESCRIPTION"
    /\ description_lines = <<>>
    /\ parsed_params = <<>>
    /\ returns = None
    /\ current_param = None
    /\ param_description_lines = <<>>
    /\ return_description_lines = <<>>
    /\ param_indent = None
    /\ return_indent = None
    /\ doc_result = None

DocIdle ==
    /\ docstring = <<>>
    /\ doc_pc = "idle"
    /\ DocLocalsUnset

CatalogLocalsUnset ==
    /\ remote_calls = <<>>
    /\ get_name = <<>>
    /\ get_result = None
    /\ names_pc = "idle"
    /\ name_idx = 0
    /\ token = None
    /\ names_raised = None
    /\ list_max_results = None
    /\ spark = None
    /\ create_call = None
    /\ create_pc = "idle"
    /\ create_result = None
    /\ session_raised = None

CatalogIdle ==
    /\ pages = <<>>
    /\ cluster_id = None
    /\ dbconnect = "serverless"
    /\ environ = None
    /\ function_names = <<>>
    /\ tools_dict = <<>>
    /\ CatalogLocalsUnset

SlotIdle ==
    /\ uc_function_client = None
    /\ client_lock = 0
    /\ programs = <<>>
    /\ thread_pc = <<>>
    /\ op_idx = <<>>
    /\ thread_got = <<>>

InitStmt ==
    /\ \E input \in StmtInputs :
          /\ function_info = input[1]
          /\ parameters = input[2]
    /\ StmtIdle
    /\ ExecIdle
    /\ IntervalIdle
    /\ ValidateIdle
    /\ DocIdle
    /\ CatalogIdle
    /\ SlotIdle

SpecStmt == InitStmt /\ [][NextStmt]_vars

-----------------------------------------------------------------------------
(* Properties of the statement builder (checked under SpecStmt) *)

Declared == DeclaredParams(function_info)
Provided(i) == DictHas(parameters, Declared[i].name)
(* the declared parameters the loop has visited so far *)
VisitedCount == IF param_idx = 0 THEN 0 ELSE param_idx - 1
Visited == 1 .. VisitedCount
OmittedBefore(i) == \E j \in 1 .. (i - 1) : ~Provided(j)

(* the provided ones among the first n declared parameters, in declared order *)
RECURSIVE ProvidedUpTo(_)
ProvidedUpTo(n) ==
    IF n = 0 THEN <<>>
    ELSE IF Provided(n) THEN Append(ProvidedUpTo(n - 1), n) ELSE ProvidedUpTo(n - 1)
EmittedParams == ProvidedUpTo(VisitedCount)

(* the expression the binding table prescribes for a parameter *)
TableExpr(p) ==
    CASE p.type_name \in {"ARRAY", "MAP", "STRUCT"} ->
            "from_json(:" \o p.name \o ", :" \o p.name \o "_type)"
      [] p.type_name = "BINARY" -> "unbase64(:" \o p.name \o ")"
      [] OTHER -> ":" \o p.name

C5_ClausesByMode ==
    /\ Len(args) = Len(EmittedParams)
    /\ \A n \in DOMAIN args :
          LET i == EmittedParams[n]
          IN  IF OmittedBefore(i)
              THEN args[n] = Declared[i].name \o " => " \o TableExpr(Declared[i])
              ELSE args[n] = TableExpr(Declared[i])
    /\ use_named_args = (\E j \in Visited : ~Provided(j))

(* C5: walking the declared parameters in order, an argument is emitted      *)
(* positionally only if no earlier declared parameter was omitted; after an  *)
(* omission every later provided argument is emitted as `name => value`, and *)
(* named mode, once on, is never switched off again.                         *)
C5_NamedModeSticks ==
    /\ [](C5_ClausesByMode)
    /\ [][use_named_args => use_named_args']_vars

(* an omitted first parameter followed by two arguments emitted by name *)
C5_Witness ==
    /\ stmt_pc = "done"
    /\ Len(Declared) = 3
    /\ ~Provided(1) /\ Provided(2) /\ Provided(3)
    /\ Len(args) = 2
    /\ use_named_args

(* the binding names of the argument list, the generated ones left out: not  *)
(* the function_name binding at the head of a scalar call, not the binding   *)
(* that follows the one of an ARRAY, MAP or STRUCT parameter                 *)
RECURSIVE ArgNamesFrom(_, _)
ArgNamesFrom(k, pos) ==
    IF pos > Len(output_params) THEN <<>>
    ELSE <<output_params[pos].name>>
         \o ArgNamesFrom(k + 1,
                pos + (IF /\ k <= Len(EmittedParams)
                          /\ Declared[EmittedParams[k]].type_name \in {"ARRAY", "MAP", "STRUCT"}
                       THEN 2 ELSE 1))
ArgBindingNames ==
    ArgNamesFrom(1, IF function_info.data_type /= "TABLE_TYPE" THEN 2 ELSE 1)

(* C6: a scalar function gives `SELECT IDENTIFIER(:function_name)(args)`     *)
(* with function_name = the full name as first binding; a table function     *)
(* gives `SELECT * FROM <full_name>(args)` with no function_name binding;    *)
(* arguments and bindings follow the declared order whatever the order of    *)
(* the keys of the provided mapping; add(x, y) with {x:1, y:2} gives         *)
(* `SELECT IDENTIFIER(:function_name)(:x,:y)` and [function_name, x, y].     *)
C6_CallPattern ==
    stmt_pc = "done" =>
        LET n == Len(Declared)
            expected == [k \in DOMAIN ProvidedUpTo(n) |->
                            LET i == ProvidedUpTo(n)[k]
                            IN  (IF OmittedBefore(i) THEN Declared[i].name \o " => " ELSE "")
                                \o TableExpr(Declared[i])]
            bound == [k \in DOMAIN ProvidedUpTo(n) |-> Declared[ProvidedUpTo(n)[k]].name]
        IN  /\ IF function_info.data_type /= "TABLE_TYPE"
               THEN /\ statement.statement =
                          "SELECT IDENTIFIER(:function_name)(" \o Join(expected, ",") \o ")"
                    /\ output_params[1].name = "function_name"
                    /\ output_params[1].value = PyStr(function_info.full_name)
               ELSE /\ statement.statement =
                          "SELECT * FROM " \o function_info.full_name
                          \o "(" \o Join(expected, ",") \o ")"
                    /\ \A k \in DOMAIN output_params :
                          output_params[k].name /= "function_name"
            /\ statement.parameters = output_params
            /\ ArgBindingNames = bound
            /\ (/\ function_info.full_name = "cat.sch.add"
                /\ DictKeys(parameters) = {"x", "y"}
                /\ DictGet(parameters, "x") = PyInt(1)
                /\ DictGet(parameters, "y") = PyInt(2))
               => /\ statement.statement = "SELECT IDENTIFIER(:function_name)(:x,:y)"
                  /\ output_params =
                         <<StatementParameterListItem("function_name",
                                                      PyStr("cat.sch.add"), None),
                           StatementParameterListItem("x", PyInt(1), PyStr("int")),
                           StatementParameterListItem("y", PyInt(2), PyStr("int"))>>

(* add(x, y) called with the mapping {y: 2, x: 1}, keys in the other order *)
C6_Witness ==
    /\ stmt_pc = "done"
    /\ function_info.full_name = "cat.sch.add"
    /\ Len(parameters) = 2
    /\ parameters[1] = Entry("y", PyInt(2))
    /\ parameters[2] = Entry("x", PyInt(1))

(* the bindings emitted for the n-th argument of the list *)
RECURSIVE BindingsFrom(_, _)
BindingsFrom(emitted, from) ==
    IF emitted = <<>> THEN <<>>
    ELSE LET p == Declared[Head(emitted)]
             width == IF p.type_name \in {"ARRAY", "MAP", "STRUCT"} THEN 2 ELSE 1
         IN  <<[p |-> p, at |-> from, width |-> width]>>
             \o BindingsFrom(Tail(emitted), from + width)

(* C7: a provided ARRAY, MAP or STRUCT parameter p is emitted as             *)
(* from_json(:p, :p_type) with exactly two bindings, p = the JSON encoding   *)
(* of the value and then p_type = the type text; every other provided        *)
(* parameter has exactly one binding named p (unbase64(:p) for BINARY, :p    *)
(* otherwise), carrying the type text except for BINARY.                     *)
C7_BindingsPerType ==
    stmt_pc = "done" =>
        LET first == IF function_info.data_type /= "TABLE_TYPE" THEN 2 ELSE 1
            slots == BindingsFrom(EmittedParams, first)
            total == IF slots = <<>> THEN first - 1
                     ELSE slots[Len(slots)].at + slots[Len(slots)].width - 1
        IN  /\ Len(output_params) = total
            /\ Len(args) = Len(slots)
            /\ \A n \in DOMAIN slots :
                  LET p == slots[n].p
                      b == output_params[slots[n].at]
                      value == DictGet(parameters, p.name)
                      named == IF OmittedBefore(EmittedParams[n]) THEN p.name \o " => " ELSE ""
                  IN  IF p.type_name \in {"ARRAY", "MAP", "STRUCT"}
                      THEN /\ args[n] = named \o "from_json(:" \o p.name \o ", :"
                                              \o p.name \o "_type)"
                           /\ b.name = p.name
                           /\ b.value = PyStr(json_dumps(value))
                           /\ output_params[slots[n].at + 1].name = p.name \o "_type"
                           /\ output_params[slots[n].at + 1].value = PyStr(p.type_text)
                      ELSE /\ b.name = p.name
                           /\ IF p.type_name = "BINARY"
                              THEN /\ args[n] = named \o "unbase64(:" \o p.name \o ")"
                                   /\ b.type = None
                              ELSE /\ args[n] = named \o ":" \o p.name
                                   /\ b.type = PyStr(p.type_text)

(* a STRUCT and a BINARY argument, both provided *)
C7_Witness ==
    /\ stmt_pc = "done"
    /\ function_info.full_name = "ml.test.f_struct"
    /\ DictHas(parameters, "s")
    /\ DictHas(parameters, "b")
    /\ Len(output_params) >= 4

IsBase64Text(value) == value.t = "str" /\ is_base64_encoded(value.v)

(* C8: for every BINARY parameter value that passed parameter validation,    *)
(* the value bound to :p inside unbase64(:p) is base64 text.                 *)
C8_BinaryBoundAsBase64 ==
    stmt_pc = "done" =>
        \A i \in DOMAIN Declared :
            (Declared[i].type_name = "BINARY" /\ Provided(i)) =>
                \A k \in DOMAIN output_params :
                    output_params[k].name = Declared[i].name
                        => IsBase64Text(output_params[k].value)

-----------------------------------------------------------------------------
(* DatabricksFunctionClient._execute_uc_function: the remote responses *)

MaxCalls == 2            \* how often the caller invokes the method with its mapping
max_retries == 6

PyBool(b) == [t |-> "bool", v |-> b]

ServiceError(code, msg) == [t |-> "ServiceError", error_code |-> code, message |-> msg]
StatementStatus(st, err) == [t |-> "StatementStatus", state |-> st, error |-> err]
ColumnNames == <<"day_of_week", "day">>
Schemas == {None, [t |-> "ResultSchema", columns |-> None],
            [t |-> "ResultSchema", columns |-> PyList(ColumnNames)]}
Manifests ==
    {None} \cup {[t |-> "ResultManifest", truncated |-> PyBool(tr), schema |-> sc]
                 : tr \in BOOLEAN, sc \in Schemas}
DataArrays ==
    {None, PyList(<<>>), PyList(<<<<>>>>), PyList(<<<<"1", "2024-01-01">>>>),
     PyList(<<<<"1", "2024-01-01">>, <<"2", "2024-01-02">>>>)}
Results == {None} \cup {[t |-> "ResultData", data_array |-> da] : da \in DataArrays}

StatementResponse(st, id, mf, res) ==
    [t |-> "StatementResponse", status |-> st, statement_id |-> id,
     manifest |-> mf, result |-> res]

(* what execute_statement and get_statement may answer: a response without   *)
(* status, a statement that has not succeeded (no manifest, no result), or   *)
(* a succeeded one with any of its parts missing, its rows of any width; a   *)
(* response that leaves the statement id out is one without status or a      *)
(* pending one                                                               *)
StatementId == PyStr("01ef-stmt")
Responses ==
    {StatementResponse(None, id, None, None) : id \in {None, StatementId}}
    \cup {StatementResponse(StatementStatus("PENDING", None), id, None, None)
          : id \in {None, StatementId}}
    \cup {StatementResponse(StatementStatus(st, None), StatementId, None, None)
          : st \in {"RUNNING", "FAILED", "CANCELED", "CLOSED"}}
    \cup {StatementResponse(
              StatementStatus("FAILED", ServiceError("BAD_REQUEST", "division by zero")),
              StatementId, None, None)}
    \cup {StatementResponse(StatementStatus("SUCCEEDED", None), StatementId, mf, res)
          : mf \in Manifests, res \in Results}

(* truthiness of an Optional[str] *)
Truthy(x) == ~IsNone(x) /\ (x.t = "str" => x.v /= "")

(* a statement that is pending or running *)
IsPending_unfinished(resp) ==
    ~IsNone(resp.status) /\ resp.status.state \in {"PENDING", "RUNNING"}
(* lines 352-356, 364 and 366 *)
IsPending(resp) == ~IsNone(resp.status) /\ resp.status.state = "PENDING"

Exception(type, msg) == [t |-> type, msg |-> msg, keys |-> {}]

FunctionExecutionResult(err, fmt, val, tr) ==
    [t |-> "FunctionExecutionResult", error |-> err, format |-> fmt,
     value |-> val, truncated |-> tr]
ErrorResult(msg) == FunctionExecutionResult(PyStr(msg), None, None, None)

(* pd.DataFrame(data_array, columns=columns) of line 414 for a list of rows: *)
(* the frame is as wide as its longest row, a shorter row lacks its last     *)
(* cells; rows of a width other than the number of columns raise             *)
RECURSIVE MaxRowLen(_)
MaxRowLen(rows) ==
    IF rows = <<>> THEN 0
    ELSE IF Len(Head(rows)) > MaxRowLen(Tail(rows)) THEN Len(Head(rows))
    ELSE MaxRowLen(Tail(rows))
DataFrame(data_array, columns) ==
    IF data_array /= <<>> /\ MaxRowLen(data_array) /= Len(columns)
    THEN Exception("ValueError",
                   ToString(Len(columns)) \o " columns passed, passed data had "
                   \o ToString(MaxRowLen(data_array)) \o " columns")
    ELSE [t |-> "DataFrame", columns |-> columns, rows |-> data_array]

(* pdf.to_csv(csv_buffer, index=False), lines 415-416: the header row, then  *)
(* every row; a cell the row lacks is written as the empty field             *)
to_csv(pdf) ==
    Join(pdf.columns, ",") \o "\n"
    \o Join([r \in DOMAIN pdf.rows |->
                Join([c \in DOMAIN pdf.columns |->
                         IF c <= Len(pdf.rows[r]) THEN pdf.rows[r][c] ELSE ""], ",")
                \o "\n"], "")

(* lines 371-419: the result decoded from the last response, or the          *)
(* exception the decoding raises                                             *)
DecodeResponse(function, resp, pandas) ==
    IF IsNone(resp.status)
    THEN ErrorResult("Statement execution failed: <response>")
    ELSE IF resp.status.state /= "SUCCEEDED"
    THEN IF IsNone(resp.status.error)
         THEN ErrorResult("Statement execution failed but no error message was provided: "
                          \o "<response>")
         ELSE ErrorResult(resp.status.error.error_code \o ": " \o resp.status.error.message)
    ELSE IF IsNone(resp.manifest)
    THEN ErrorResult("Statement execution succeeded but no manifest was returned.")
    ELSE IF IsNone(resp.result)
    THEN ErrorResult("Statement execution succeeded but no result was provided.")
    ELSE LET truncated == resp.manifest.truncated
             data_array == resp.result.data_array
         IN  IF is_scalar(function)
             THEN FunctionExecutionResult(
                      None, PyStr("SCALAR"),
                      IF /\ ~IsNone(data_array)
                         /\ Len(data_array.v) > 0
                         /\ Len(data_array.v[1]) > 0
                      THEN PyStr(data_array.v[1][1])
                      ELSE None,
                      truncated)
             ELSE IF ~pandas
             THEN Exception("ImportError",
                            "Could not import pandas python package. "
                            \o "Please install it with " \o Backquote
                            \o "pip install pandas" \o Backquote \o ".")
             ELSE IF \/ IsNone(resp.manifest.schema)
                     \/ IsNone(resp.manifest.schema.columns)
             THEN ErrorResult("Statement execution succeeded but no schema was provided "
                              \o "for table function.")
             ELSE LET pdf == DataFrame(IF IsNone(data_array) THEN <<>> ELSE data_array.v,
                                       resp.manifest.schema.columns.v)
                  IN  IF pdf.t = "ValueError" THEN pdf
                      ELSE FunctionExecutionResult(None, PyStr("CSV"), PyStr(to_csv(pdf)),
                                                   truncated)

(* lines 366-370, reached when the polling loop is left *)
StillPendingResult ==
    ErrorResult("Statement execution is still pending after " \o ToString(max_retries)
                \o " times. Please try increase the wait_timeout argument for "
                \o "executing the function.")
(* AfterPolling without the check of lines 366-370 *)
AfterPolling_unchecked(function, resp, pandas) == DecodeResponse(function, resp, pandas)
AfterPolling(function, resp, pandas) ==
    IF IsPending(resp) THEN StillPendingResult ELSE DecodeResponse(function, resp, pandas)

-----------------------------------------------------------------------------
(* DatabricksFunctionClient._execute_uc_function *)

(* the keyword parameters of WorkspaceClient.statement_execution.execute_statement *)
ExecuteStatementSignature ==
    {"statement", "warehouse_id", "byte_limit", "catalog", "disposition", "format",
     "on_wait_timeout", "parameters", "row_limit", "schema", "wait_timeout"}

(* the callable client.statement_execution.execute_statement: its module,    *)
(* its qualified name, and var_keyword, whether its signature has *args or   *)
(* **kwargs. The method of the SDK, the function of                          *)
(* test_extra_params_when_executing_function_errors and a function           *)
(* execute_statement(statement, warehouse_id, **kwargs) of a script.         *)
Callable(module, qualname, vk) ==
    [module |-> module, qualname |-> qualname, var_keyword |-> vk]
SdkExecuteStatement ==
    Callable("databricks.sdk.service.sql", "StatementExecutionAPI.execute_statement", FALSE)
Callables ==
    { SdkExecuteStatement,
      Callable("test_databricks_client",
               "test_extra_params_when_executing_function_errors.<locals>."
               \o "mock_execute_statement", FALSE),
      Callable("__main__", "execute_statement", TRUE) }

Clients ==
    {[t |-> "DatabricksFunctionClient", warehouse_id |-> w, execute_statement |-> f]
     : w \in {None, PyStr("fake_warehouse_id")}, f \in Callables}

StandardClient ==
    [t |-> "DatabricksFunctionClient", warehouse_id |-> PyStr("fake_warehouse_id"),
     execute_statement |-> SdkExecuteStatement]

GoodParams ==
    <<FunctionParameterInfo("a", "INT", "int", None),
      FunctionParameterInfo("b", "STRING", "string", None)>>
BadParams ==
    <<FunctionParameterInfo(EXECUTE_FUNCTION_ARG_NAME, "STRING", "string", None)>>
ExecFunctions ==
    {FunctionInfo("ml.serena_uc_test.test_f", dt, ips)
     : dt \in {"STRING", "TABLE_TYPE"},
       ips \in {None,
                [t |-> "FunctionParameterInfos", parameters |-> None],
                FunctionParameterInfos(GoodParams),
                FunctionParameterInfos(BadParams)}}

ExecParameters ==
    { <<>>,
      <<Entry("a", PyInt(1)), Entry("b", PyStr("b"))>>,
      <<Entry("a", PyInt(1)),
        Entry(EXECUTE_FUNCTION_ARG_NAME, PyDict(<<Entry("wait_timeout", PyStr("10s"))>>))>>,
      <<Entry(EXECUTE_FUNCTION_ARG_NAME, PyDict(<<Entry("row_limit", PyStr("1000"))>>))>>,
      <<Entry(EXECUTE_FUNCTION_ARG_NAME, PyDict(<<Entry("invalid_param", PyStr("a"))>>))>>,
      <<Entry("b", PyStr("b")),
        Entry(EXECUTE_FUNCTION_ARG_NAME,
              PyDict(<<Entry("byte_limit", PyInt(1024)), Entry("bogus", PyInt(1)),
                       Entry("junk", PyInt(2))>>))>>,
      <<Entry(EXECUTE_FUNCTION_ARG_NAME, PyStr("value"))>>,
      <<Entry(EXECUTE_FUNCTION_ARG_NAME, PyDict(<<Entry("statement", PyStr("x"))>>))>> }

(* the check of lines 305-311 left out *)
ReservedNameConflict_unchecked(function) == FALSE

(* lines 305-311 *)
ReservedNameConflict(function) ==
    /\ ~IsNone(function.input_params)
    /\ ~IsNone(function.input_params.parameters)
    /\ \E i \in DOMAIN function.input_params.parameters.v :
          function.input_params.parameters.v[i].name = EXECUTE_FUNCTION_ARG_NAME

(* lines 320-326: the options are checked only against a signature without  *)
(* *args and **kwargs                                                        *)
ChecksOptions(cl) == ~cl.execute_statement.var_keyword

(* line 328 *)
PassedOptions(params) == DictPopValue(params, EXECUTE_FUNCTION_ARG_NAME, PyDict(<<>>))
ParametersAfterPop(cl, params) ==
    IF ChecksOptions(cl) THEN DictPop(params, EXECUTE_FUNCTION_ARG_NAME) ELSE params

(* lines 329-333 *)
RECURSIVE MergeOptions(_, _)
MergeOptions(acc, passed) ==
    IF passed = <<>> THEN acc
    ELSE MergeOptions(IF Head(passed).k \in ExecuteStatementSignature
                      THEN DictSet(acc, Head(passed).k, Head(passed).v)
                      ELSE acc,
                      Tail(passed))
InvalidOptions(passed) == {k \in DictKeys(passed) : k \notin ExecuteStatementSignature}

execute_statement_args(cl, params) ==
    IF ChecksOptions(cl)
    THEN MergeOptions(DEFAULT_EXECUTE_FUNCTION_ARGS, PassedOptions(params).v)
    ELSE DEFAULT_EXECUTE_FUNCTION_ARGS

(* line 361 *)
BackoffDelay_linear(cnt) == 2 * cnt
BackoffDelay(cnt) == 2 ^ cnt

SleepEvent(secs) == [op |-> "sleep", secs |-> secs, state |-> "-"]
PollEvent(resp) ==
    [op |-> "get_statement", secs |-> 0,
     state |-> IF IsNone(resp.status) THEN "None" ELSE resp.status.state]

(* get_statement(statement_id) answers for the statement it is asked about *)
PollResponses(id) == {r \in Responses : r.statement_id = id}

Raise(exc) ==
    /\ pc' = "raised"
    /\ raised' = exc
    /\ result' = None
    /\ response' = None

(* the method returns the decoded result, or the decoding raises *)
Finish(outcome) ==
    IF outcome.t = "FunctionExecutionResult"
    THEN /\ pc' = "done"
         /\ result' = outcome
         /\ raised' = None
    ELSE /\ pc' = "raised"
         /\ result' = None
         /\ raised' = outcome

(* line 342: a name given both as a keyword and in **execute_statement_args  *)
(* makes the call fail before execute_statement runs                         *)
CallKeywords == {"statement", "warehouse_id", "parameters"}
DuplicateKeywords(options) ==
    SelectSeq([i \in DOMAIN options |-> options[i].k], LAMBDA k : k \in CallKeywords)
(* the name of a callable in the message of a call error: the qualified name *)
(* after the module, the module left out when it is builtins                 *)
CalleeName(f) ==
    IF f.module = "builtins" THEN f.qualname ELSE f.module \o "." \o f.qualname
DuplicateKeywordError(f, options) ==
    Exception("TypeError",
              CalleeName(f) \o "() got multiple values for keyword argument '"
              \o Head(DuplicateKeywords(options)) \o "'")

(* One invocation up to the call of execute_statement: the checks and the    *)
(* pop of lines 305-339, the statement of line 341 and the request of line   *)
(* 342, whose answer the thread then waits for.                              *)
Execute ==
    /\ pc \in {"idle", "done", "raised"}
    /\ calls < MaxCalls
    /\ calls' = calls + 1
    /\ retry_cnt' = 0
    /\ events' = <<>>
    /\ IF ReservedNameConflict(function_info)
       THEN /\ Raise(Exception("ValueError",
                         "Parameter name conflicts with the reserved argument name for "
                         \o "executing functions: " \o EXECUTE_FUNCTION_ARG_NAME
                         \o ". Please rename the parameter "
                         \o EXECUTE_FUNCTION_ARG_NAME \o "."))
            /\ UNCHANGED <<parameters, submitted>>
       ELSE IF ChecksOptions(client) /\ PassedOptions(parameters).t /= "dict"
       THEN /\ Raise(Exception("AttributeError",
                               "'" \o PassedOptions(parameters).t
                               \o "' object has no attribute 'items'"))
            /\ parameters' = ParametersAfterPop(client, parameters)
            /\ UNCHANGED submitted
       ELSE IF ChecksOptions(client) /\ InvalidOptions(PassedOptions(parameters).v) /= {}
       THEN /\ Raise([Exception("ValueError", "Invalid parameters for executing functions")
                      EXCEPT !.keys = InvalidOptions(PassedOptions(parameters).v)])
            /\ parameters' = ParametersAfterPop(client, parameters)
            /\ UNCHANGED submitted
       ELSE IF ~Truthy(client.warehouse_id)
       THEN /\ Raise(Exception("ValueError",
                         "warehouse_id is required for executing UC functions in Databricks"))
            /\ parameters' = ParametersAfterPop(client, parameters)
            /\ UNCHANGED submitted
       ELSE IF DuplicateKeywords(execute_statement_args(client, parameters)) /= <<>>
       THEN /\ Raise(DuplicateKeywordError(client.execute_statement,
                                       execute_statement_args(client, parameters)))
            /\ parameters' = ParametersAfterPop(client, parameters)
            /\ UNCHANGED submitted
       ELSE /\ parameters' = ParametersAfterPop(client, parameters)
            /\ submitted' =
                   Append(submitted,
                          [statement |-> get_execute_function_sql_stmt(
                                             function_info, parameters'),
                           warehouse_id |-> client.warehouse_id,
                           options |-> execute_statement_args(client, parameters)])
            /\ pc' = "submitted"
            /\ response' = None
            /\ result' = None
            /\ raised' = None
    /\ UNCHANGED <<function_info, client, pandas_importable, stmt_vars, interval_vars,
                   validate_vars, doc_vars, catalog_vars, slot_vars>>

(* execute_statement returns, line 342: the check of lines 352-356, then     *)
(* either the polling loop is entered (the thread sleeps, line 361) or the   *)
(* response is decoded, lines 371-419.                                       *)
ExecuteReturns ==
    /\ pc = "submitted"
    /\ \E resp \in Responses :
          /\ response' = resp
          /\ IF IsPending(resp) /\ Truthy(resp.statement_id)
             THEN /\ pc' = "polling"
                  /\ result' = None
                  /\ raised' = None
             ELSE Finish(DecodeResponse(function_info, resp, pandas_importable))
    /\ UNCHANGED <<function_info, parameters, client, pandas_importable, calls, submitted,
                   retry_cnt, events, stmt_vars, interval_vars, validate_vars, doc_vars,
                   catalog_vars, slot_vars>>

(* time.sleep(2**retry_cnt) of line 361 is over and get_statement is called, *)
(* line 363: the thread waits for its answer.                                *)
Sleep ==
    /\ pc = "polling"
    /\ retry_cnt < max_retries
    /\ retry_cnt' = retry_cnt + 1
    /\ events' = Append(events, SleepEvent(BackoffDelay(retry_cnt')))
    /\ pc' = "asking"
    /\ UNCHANGED <<function_info, parameters, client, pandas_importable, calls, submitted,
                   response, result, raised, stmt_vars, interval_vars, validate_vars,
                   doc_vars, catalog_vars, slot_vars>>

(* get_statement returns, line 363: the check of lines 364-365, and what     *)
(* follows the loop when this iteration leaves it, lines 366-419; otherwise  *)
(* the thread sleeps again.                                                  *)
Poll ==
    /\ pc = "asking"
    /\ \E resp \in PollResponses(response.statement_id) :
          /\ response' = resp
          /\ events' = Append(events, PollEvent(resp))
          /\ IF ~IsPending(resp) \/ retry_cnt = max_retries
             THEN Finish(AfterPolling(function_info, resp, pandas_importable))
             ELSE /\ pc' = "polling"
                  /\ result' = None
                  /\ raised' = None
    /\ UNCHANGED <<function_info, parameters, client, pandas_importable, calls, submitted,
                   retry_cnt, stmt_vars, interval_vars, validate_vars, doc_vars, catalog_vars,
                   slot_vars>>

Init ==
    /\ function_info \in ExecFunctions
    /\ parameters \in ExecParameters
    /\ client \in Clients
    /\ pandas_importable \in BOOLEAN
    /\ pandas_importable = FALSE => client = StandardClient
    /\ pc = "idle"
    /\ calls = 0
    /\ submitted = <<>>
    /\ response = None
    /\ retry_cnt = 0
    /\ events = <<>>
    /\ result = None
    /\ raised = None
    /\ StmtIdle
    /\ IntervalIdle
    /\ ValidateIdle
    /\ DocIdle
    /\ CatalogIdle
    /\ SlotIdle

Next == Execute \/ ExecuteReturns \/ Sleep \/ Poll

Spec == Init /\ [][Next]_vars

(* the polling loop runs in the calling thread, which time.sleep blocks for  *)
(* a bounded time only, and the statement service answers every request: a   *)
(* step of the invocation that can run does run                              *)
FairSpec == Spec /\ WF_vars(ExecuteReturns) /\ WF_vars(Sleep) /\ WF_vars(Poll)

-----------------------------------------------------------------------------
(* Properties of _execute_uc_function (checked under Spec and FairSpec) *)

Polls == SelectSeq(events, LAMBDA ev : ev.op = "get_statement")
NumPolls == Len(Polls)

C1_PollingInv ==
    /\ NumPolls <= 6
    /\ Len(events) = 2 * NumPolls + (IF pc = "asking" THEN 1 ELSE 0)
    /\ pc = "asking" => events[Len(events)] = SleepEvent(2 ^ (NumPolls + 1))
    /\ \A k \in 1 .. NumPolls :
          /\ events[2 * k - 1].op = "sleep"
          /\ events[2 * k - 1].secs = 2 ^ k
          /\ events[2 * k].op = "get_statement"
    /\ \A k \in 1 .. (NumPolls - 1) : Polls[k].state = "PENDING"
    /\ pc \in {"polling", "asking"} =>
          /\ NumPolls < 6
          /\ \A k \in 1 .. NumPolls : Polls[k].state = "PENDING"

(* C1: after an initial PENDING response with a statement id the client      *)
(* makes at most 6 get_statement polls, the k-th right after a blocking      *)
(* delay of exactly 2^k, makes no poll after the first response whose        *)
(* status is absent or not PENDING, and so always leaves the polling loop.   *)
C1_BoundedBackoffPolling ==
    /\ [](C1_PollingInv)
    /\ ((pc \in {"polling", "asking"}) ~> (pc \in {"done", "raised"}))

(* all six polls made, the last one answered SUCCEEDED *)
C1_Witness ==
    /\ pc = "done"
    /\ NumPolls = 6
    /\ events[11] = [op |-> "sleep", secs |-> 64, state |-> "-"]
    /\ Polls[6].state = "SUCCEEDED"

StillPendingText ==
    "Statement execution is still pending after 6 times. "
    \o "Please try increase the wait_timeout argument for executing the function."

(* C2: a statement still PENDING after all 6 polls makes the method return,  *)
(* not raise, an error result whose text says "still pending after 6" and    *)
(* that carries no value; and only six polls that all observed PENDING       *)
(* produce this result.                                                      *)
C2_StillPendingReported ==
    /\ (NumPolls = 6 /\ \A k \in 1 .. 6 : Polls[k].state = "PENDING")
          => /\ pc = "done"
             /\ raised = None
             /\ result.t = "FunctionExecutionResult"
             /\ result.error = PyStr(StillPendingText)
             /\ result.value = None
             /\ result.format = None
    /\ (pc = "done" /\ result.error = PyStr(StillPendingText))
          => (NumPolls = 6 /\ \A k \in 1 .. 6 : Polls[k].state = "PENDING")

C2_Witness ==
    /\ pc = "done"
    /\ NumPolls = 6
    /\ Polls[6].state = "PENDING"
    /\ result.error = PyStr(StillPendingText)

IsErrorResult(r) ==
    /\ r.t = "FunctionExecutionResult"
    /\ ~IsNone(r.error)
    /\ r.format = None
    /\ r.value = None

(* a statement was submitted in this invocation and has been answered *)
Answered == ~IsNone(response)

C3_EnumeratedFailures ==
    /\ IsNone(response.status) => IsErrorResult(result)
    /\ (~IsNone(response.status) /\ response.status.state /= "SUCCEEDED")
          => IsErrorResult(result)
    /\ (/\ ~IsNone(response.status)
        /\ response.status.state /= "SUCCEEDED"
        /\ ~IsNone(response.status.error))
          => result.error.v = response.status.error.error_code \o ": "
                              \o response.status.error.message
    /\ IsNone(response.manifest) => IsErrorResult(result)
    /\ IsNone(response.result) => IsErrorResult(result)

MissingSchema ==
    /\ function_info.data_type = "TABLE_TYPE"
    /\ ~IsNone(response.manifest)
    /\ (IsNone(response.manifest.schema) \/ IsNone(response.manifest.schema.columns))

(* C3: once the statement has been submitted, every outcome is a             *)
(* returned FunctionExecutionResult and never a raised fault; a missing      *)
(* status, a state other than SUCCEEDED (with or without a remote error), a  *)
(* missing manifest, a missing result and, for a table function, a missing   *)
(* schema or column list each give an error result.                          *)
C3_NeverRaises ==
    Answered =>
        /\ pc \in {"polling", "asking", "done"}
        /\ raised = None
        /\ pc = "done" =>
              /\ result.t = "FunctionExecutionResult"
              /\ C3_EnumeratedFailures
              /\ MissingSchema => IsErrorResult(result)

(* the fault of C3: a table function's succeeded answer, manifest, result    *)
(* and column list present, whose rows are not as wide as the column list    *)
RowsOfAnotherWidth ==
    /\ pc = "raised"
    /\ Answered
    /\ pandas_importable
    /\ function_info.data_type = "TABLE_TYPE"
    /\ response.status.state = "SUCCEEDED"
    /\ response.result.data_array = PyList(<<<<>>>>)
    /\ response.manifest.schema.columns = PyList(ColumnNames)
    /\ raised = Exception("ValueError", "2 columns passed, passed data had 0 columns")

Succeeded ==
    /\ pc \in {"done", "raised"}
    /\ Answered
    /\ ~IsNone(response.status)
    /\ response.status.state = "SUCCEEDED"
    /\ ~IsNone(response.manifest)
    /\ ~IsNone(response.result)

HasColumns ==
    /\ ~IsNone(response.manifest.schema)
    /\ ~IsNone(response.manifest.schema.columns)

(* the rows of a result, none when the data array is absent *)
RowsOf(res) == IF IsNone(res.data_array) THEN <<>> ELSE res.data_array.v

(* header row, then every row, each ended by a line break *)
RECURSIVE Lines(_)
Lines(rows) ==
    IF rows = <<>> THEN "" ELSE Join(Head(rows), ",") \o "\n" \o Lines(Tail(rows))

C4_ScalarCase ==
    (Succeeded /\ function_info.data_type /= "TABLE_TYPE") =>
        /\ pc = "done"
        /\ result.error = None
        /\ result.format = PyStr("SCALAR")
        /\ result.truncated = response.manifest.truncated
        /\ result.value =
              IF RowsOf(response.result) = <<>> THEN None
              ELSE IF RowsOf(response.result)[1] = <<>> THEN None
              ELSE PyStr(RowsOf(response.result)[1][1])

C4_TableCase ==
    /\ result.error = None
    /\ result.format = PyStr("CSV")
    /\ result.truncated = response.manifest.truncated
    /\ result.value =
          PyStr(Lines(<<response.manifest.schema.columns.v>> \o RowsOf(response.result)))
    /\ response.result.data_array
          = PyList(<<<<"1", "2024-01-01">>, <<"2", "2024-01-02">>>>)
       => result.value = PyStr("day_of_week,day\n1,2024-01-01\n2,2024-01-02\n")

(* C4: on a SUCCEEDED response with manifest and result, a function that     *)
(* does not return TABLE_TYPE gives format SCALAR with the first cell of the *)
(* first row (null when the data array is absent, empty or starts with an    *)
(* empty row), a TABLE_TYPE function gives the tabular format, header row of *)
(* column names then all rows; truncated is the manifest's flag in both      *)
(* cases. The tabular case is stated where section 4.6 promises a table: the *)
(* manifest's schema lists its columns and pandas can be imported.           *)
C4_DecodedWithSchema ==
    /\ C4_ScalarCase
    /\ (/\ Answered
        /\ pc \notin {"polling", "asking"}
        /\ ~IsNone(response.status)
        /\ response.status.state = "SUCCEEDED"
        /\ ~IsNone(response.manifest)
        /\ ~IsNone(response.result)
        /\ function_info.data_type = "TABLE_TYPE"
        /\ HasColumns
        /\ pandas_importable)
          => (pc = "done" /\ C4_TableCase)

-----------------------------------------------------------------------------
(* convert_timedelta_to_interval_str on its own (utils.py, lines 253-261) *)

MaxIntervalDays == 2
IntervalSeconds == {0, 59, 1000, 3661, 86399}
IntervalMicroseconds == {0, 5, 50, 100000, 123456, 999999}

(* non-negative durations, as datetime.timedelta normalises them *)
Timedeltas ==
    {PyTimedelta(d, sec, us) :
        d \in 0 .. MaxIntervalDays, sec \in IntervalSeconds, us \in IntervalMicroseconds}

ConvertTimedelta ==
    /\ ~IsNone(delta)
    /\ IsNone(interval_str)
    /\ interval_str' = PyStr(convert_timedelta_to_interval_str(delta))
    /\ UNCHANGED <<function_info, parameters, stmt_vars, exec_vars, delta, validate_vars,
                   doc_vars, catalog_vars, slot_vars>>

InitInterval ==
    /\ function_info = None
    /\ parameters = <<>>
    /\ StmtIdle
    /\ ExecIdle
    /\ ValidateIdle
    /\ DocIdle
    /\ CatalogIdle
    /\ SlotIdle
    /\ delta \in Timedeltas
    /\ interval_str = None

NextInterval == ConvertTimedelta

SpecInterval == InitInterval /\ [][NextInterval]_vars

-----------------------------------------------------------------------------
(* Reading a day-to-second interval literal (checked under SpecInterval) *)

(* the characters of an interval text the conversion can return *)
IntervalTextChars(text) ==
    CHOOSE c \in {INTERVAL_chars \o <<" ", "'">> \o IntervalBodyChars(tv)
                    \o <<"'", " ">> \o DAY_TO_SECOND_chars : tv \in Timedeltas} :
        Join(c, "") = text

(* the first position at or after `from` that holds ch *)
RECURSIVE IndexOf(_, _, _)
IndexOf(c, ch, from) ==
    IF from > Len(c) THEN 0
    ELSE IF c[from] = ch THEN from
    ELSE IndexOf(c, ch, from + 1)

DigitValue(ch) == (CHOOSE i \in DOMAIN DigitChars : DigitChars[i] = ch) - 1

RECURSIVE DigitsValue(_)
DigitsValue(c) ==
    IF c = <<>> THEN 0
    ELSE 10 * DigitsValue(SubSeq(c, 1, Len(c) - 1)) + DigitValue(c[Len(c)])

(* the fraction of a second after the point, in microseconds: ".5" is half   *)
(* a second, ".000005" five microseconds                                     *)
FractionMicroseconds(c) ==
    DigitsValue(SubSeq(c \o <<"0", "0", "0", "0", "0", "0">>, 1, 6))

(* INTERVAL 'D H:M:S.ffffff' DAY TO SECOND read field by field *)
ReadIntervalLiteral(text) ==
    LET c == IntervalTextChars(text)
        open == IndexOf(c, "'", 1)
        close == IndexOf(c, "'", open + 1)
        body == SubSeq(c, open + 1, close - 1)
        sp == IndexOf(body, " ", 1)
        c1 == IndexOf(body, ":", sp + 1)
        c2 == IndexOf(body, ":", c1 + 1)
        dot == IndexOf(body, ".", c2 + 1)
    IN  [days |-> DigitsValue(SubSeq(body, 1, sp - 1)),
         hours |-> DigitsValue(SubSeq(body, sp + 1, c1 - 1)),
         minutes |-> DigitsValue(SubSeq(body, c1 + 1, c2 - 1)),
         seconds |-> DigitsValue(SubSeq(body, c2 + 1, dot - 1)),
         microseconds |-> FractionMicroseconds(SubSeq(body, dot + 1, Len(body)))]

DurationFields(td) ==
    [days |-> td.days,
     hours |-> td.seconds \div 3600,
     minutes |-> (td.seconds % 3600) \div 60,
     seconds |-> td.seconds % 60,
     microseconds |-> td.microseconds]

(* C9: the text convert_timedelta_to_interval_str returns, read as the       *)
(* day-to-second interval literal INTERVAL 'D H:M:S.ffffff' DAY TO SECOND,   *)
(* gives the days, hours, minutes, seconds and microseconds of the duration  *)
(* it was made from.                                                         *)
C9_IntervalRoundTrip ==
    ~IsNone(interval_str) => ReadIntervalLiteral(interval_str.v) = DurationFields(delta)

-----------------------------------------------------------------------------
(* BaseFunctionClient.validate_input_params: the parameter validator, as its *)
(* specification and tests/functions/test_client.py describe it              *)

(* repr() of the values an error message shows *)
RECURSIVE repr(_)
repr(x) ==
    IF x.t = "str" THEN "'" \o x.v \o "'"
    ELSE IF x.t = "int" THEN ToString(x.v)
    ELSE IF x.t = "NoneType" THEN "None"
    ELSE json_dumps(x)

(* repr() of a str that holds an apostrophe and no double quote *)
repr_double_quoted(text) == "\"" \o text \o "\""

(* whether the message _validate_param_type raises holds an apostrophe: the  *)
(* class reprs and the interval messages do, the others when the value does  *)
message_has_apostrophe(value, param_info) ==
    \/ ~isinstance(value, column_type_to_python_type(param_info.type_name))
    \/ param_info.type_name = "INTERVAL"
    \/ /\ value.t = "str"
       /\ \E i \in DOMAIN Chars(value.v) : Chars(value.v)[i] = "'"

(* repr() of a dict: {'k': v, ...} in insertion order *)
repr_dict(d) ==
    "{" \o Join([i \in DOMAIN d |-> "'" \o d[i].k \o "': " \o repr(d[i].v)], ", ") \o "}"

ValueError(msg) == Exception("ValueError", msg)

UnexpectedParametersError(params) ==
    ValueError("Function does not have input parameters, but parameters "
               \o repr_dict(params) \o " were provided.")
MissingRequiredParameterError(name) ==
    ValueError("Parameter " \o name \o " is required but not provided.")
ExtraParametersError(extra) ==
    ValueError("Extra parameters provided that are not defined in the function's "
               \o "input parameters: " \o repr_dict(extra) \o ".")
(* invalid: name -> str(e), each with the quotes its repr() takes *)
InvalidParameterTypesError(invalid) ==
    ValueError("Invalid parameters provided: {"
               \o Join([i \in DOMAIN invalid |->
                           "'" \o invalid[i].k \o "': "
                           \o (IF invalid[i].apostrophe
                               THEN repr_double_quoted(invalid[i].v.v)
                               ELSE repr(invalid[i].v))], ", ")
               \o "}.")

(* a declared parameter the caller has to provide *)
IsRequired_always(param_info) == TRUE
IsRequired(param_info) == IsNone(param_info.parameter_default)

(* SelectEntries that stops at the first entry it keeps *)
RECURSIVE SelectEntries_first(_, _)
SelectEntries_first(d, keep) ==
    IF d = <<>> THEN <<>>
    ELSE IF d[1].k \in keep THEN <<d[1]>>
    ELSE SelectEntries_first(Tail(d), keep)

RECURSIVE SelectEntries(_, _)
SelectEntries(d, keep) ==
    IF d = <<>> THEN <<>>
    ELSE IF d[1].k \in keep THEN <<d[1]>> \o SelectEntries(Tail(d), keep)
    ELSE SelectEntries(Tail(d), keep)

(* tests/functions/test_client.py lines 16-24 *)
MockParamInfo(n, tname, default) ==
    [name |-> n, type_name |-> tname, parameter_default |-> default]
MockInputParams(ps) == [t |-> "MockInputParams", parameters |-> PyList(ps)]

(* MockClient._validate_param_type, test_client.py lines 39-42: the name of  *)
(* the class of the value against the declared type name                     *)
MockClient_validate_param_type(value, param_info) ==
    IF value.t /= param_info.type_name
    THEN PyStr("Expected type " \o param_info.type_name \o ", but got " \o value.t)
    ELSE None

(* self._validate_param_type(value, param_info), the method of the subclass *)
self_validate_param_type(self, value, param_info) ==
    IF self = "MockClient" THEN MockClient_validate_param_type(value, param_info)
    ELSE validate_param_type(value, param_info)

(* whether str(e) of the error of self._validate_param_type holds an         *)
(* apostrophe: the message of MockClient holds two class names (MockTypes    *)
(* for the declared one) and no other quote                                  *)
MockTypes == {"int", "str"}
self_message_has_apostrophe(self, value, param_info) ==
    IF self = "MockClient" THEN param_info.type_name \notin MockTypes
    ELSE message_has_apostrophe(value, param_info)

(* InvalidParams that stops at the first parameter that fails the type check *)
RECURSIVE InvalidParams_first(_, _, _)
InvalidParams_first(self, declared, params) ==
    IF declared = <<>> THEN <<>>
    ELSE LET param_info == declared[1]
             rest == InvalidParams_first(self, Tail(declared), params)
         IN  IF ~DictHas(params, param_info.name) THEN rest
             ELSE LET err == self_validate_param_type(
                                 self, DictGet(params, param_info.name), param_info)
                  IN  IF IsNone(err) THEN rest
                      ELSE <<[k |-> param_info.name, v |-> PyStr(err.v),
                              apostrophe |->
                                  self_message_has_apostrophe(
                                      self, DictGet(params, param_info.name),
                                      param_info)]>>
(* name -> message of every provided declared parameter that fails the type  *)
(* check, in declared order                                                  *)
RECURSIVE InvalidParams(_, _, _)
InvalidParams(self, declared, params) ==
    IF declared = <<>> THEN <<>>
    ELSE LET param_info == declared[1]
             rest == InvalidParams(self, Tail(declared), params)
         IN  IF ~DictHas(params, param_info.name) THEN rest
             ELSE LET err == self_validate_param_type(
                                 self, DictGet(params, param_info.name), param_info)
                  IN  IF IsNone(err) THEN rest
                      ELSE <<[k |-> param_info.name, v |-> PyStr(err.v),
                              apostrophe |->
                                  self_message_has_apostrophe(
                                      self, DictGet(params, param_info.name),
                                      param_info)]>>
                           \o rest

(* the ValueError of a failed validation: the reports its message carries,   *)
(* one for each error in errors. Undeclared keys and type mismatches are     *)
(* collected and surfaced by the same failure (sections 4.4 and 8 of the     *)
(* specification); the specification fixes the text of each report and not   *)
(* how the message joins two of them, so the error is kept as its reports.   *)
Surfaced(errors) == [t |-> "ValueError", reports |-> {e.msg : e \in errors}]

(* None when the parameters are valid, else the ValueError raised: a missing *)
(* required parameter fails first, naming the first one in declared order;   *)
(* then the undeclared keys and the type mismatches are reported together    *)
validate_input_params(self, input_params, params) ==
    IF IsNone(input_params) \/ IsNone(input_params.parameters)
    THEN IF params /= <<>> THEN Surfaced({UnexpectedParametersError(params)}) ELSE None
    ELSE LET declared == input_params.parameters.v
             names == {declared[i].name : i \in DOMAIN declared}
             missing == {i \in DOMAIN declared :
                            /\ IsRequired(declared[i])
                            /\ ~DictHas(params, declared[i].name)}
             extra == SelectEntries(params, DictKeys(params) \ names)
             invalid == InvalidParams(self, declared, params)
         IN  IF missing /= {}
             THEN Surfaced({MissingRequiredParameterError(
                               declared[CHOOSE i \in missing : \A j \in missing : i <= j]
                                   .name)})
             ELSE IF extra /= <<>> \/ invalid /= <<>>
             THEN Surfaced((IF extra /= <<>> THEN {ExtraParametersError(extra)} ELSE {})
                           \cup (IF invalid /= <<>>
                                 THEN {InvalidParameterTypesError(invalid)} ELSE {}))
             ELSE None

(* the declared lists of the tests, with and without defaults *)
DeclaredLists ==
    { <<FunctionParameterInfo(n1[1], "INT", "int", n1[2]),
        FunctionParameterInfo(n2[1], "STRING", "string", n2[2])>> :
        n1 \in {"param1"} \X {None, PyStr("0")},
        n2 \in {"param2", "param3"} \X {None, PyStr("default")} }
    \cup { <<FunctionParameterInfo("param1", "INT", "int", None)>>, <<>> }

ValidateFunctions ==
    {FunctionInfo("cat.sch.mock", "STRING", FunctionParameterInfos(ps)) : ps \in DeclaredLists}
    \cup {FunctionInfo("cat.sch.mock", "STRING", None)}

(* the input_params of test_validate_input_params, test_client.py lines      *)
(* 56-59, and None of line 72                                                *)
MockFunctions ==
    { FunctionInfo("cat.sch.mock", "STRING",
                   MockInputParams(<<MockParamInfo("param1", "int", None),
                                     MockParamInfo("param2", "str", PyStr("default"))>>)),
      FunctionInfo("cat.sch.mock", "STRING", None) }

(* the client that validates and the function it validates for *)
ValidateCalls ==
    {<<"DatabricksFunctionClient", f>> : f \in ValidateFunctions}
    \cup {<<"MockClient", f>> : f \in MockFunctions}

(* each of param1, param2, param3 absent, an int or a str *)
ValidateParameters ==
    LET Choice == {None, PyInt(1), PyStr("value")}
        Pick(name, val) == IF IsNone(val) THEN <<>> ELSE <<Entry(name, val)>>
    IN  {Pick("param1", v1) \o Pick("param2", v2) \o Pick("param3", v3) :
            v1 \in Choice, v2 \in Choice, v3 \in Choice}

ValidateInputParams ==
    /\ validate_pc = "called"
    /\ LET exc == validate_input_params(validate_self, function_info.input_params,
                                        parameters)
       IN  /\ validate_raised' = exc
           /\ validate_pc' = IF IsNone(exc) THEN "returned" ELSE "raised"
    /\ UNCHANGED <<function_info, parameters, validate_self, stmt_vars, exec_vars,
                   interval_vars, doc_vars, catalog_vars, slot_vars>>

InitValidate ==
    /\ \E call \in ValidateCalls :
           /\ validate_self = call[1]
           /\ function_info = call[2]
    /\ parameters \in ValidateParameters
    /\ StmtIdle
    /\ ExecIdle
    /\ IntervalIdle
    /\ DocIdle
    /\ CatalogIdle
    /\ SlotIdle
    /\ validate_pc = "called"
    /\ validate_raised = None

NextValidate == ValidateInputParams

SpecValidate == InitValidate /\ [][NextValidate]_vars

-----------------------------------------------------------------------------
(* Properties of the parameter validator (checked under SpecValidate) *)

Validated == validate_pc \in {"returned", "raised"}

AbsentRequired ==
    {i \in DOMAIN Declared :
        IsNone(Declared[i].parameter_default) /\ ~DictHas(parameters, Declared[i].name)}

AbsentDefaulted ==
    {i \in DOMAIN Declared :
        ~IsNone(Declared[i].parameter_default) /\ ~DictHas(parameters, Declared[i].name)}

NamesMissing(exc, i) ==
    exc = [t |-> "ValueError",
           reports |-> {"Parameter " \o Declared[i].name
                        \o " is required but not provided."}]

(* C10: validate_input_params fails with the missing-required-parameter      *)
(* error, naming the parameter, whenever a declared parameter without a      *)
(* default is absent from the provided mapping; it never fails with that     *)
(* error naming an absent parameter that has a default.                      *)
C10_MissingRequiredParameter ==
    (Validated /\ ~IsNone(function_info.input_params)) =>
        /\ AbsentRequired /= {}
              => /\ validate_pc = "raised"
                 /\ \E i \in AbsentRequired : NamesMissing(validate_raised, i)
        /\ \A i \in AbsentDefaulted : ~NamesMissing(validate_raised, i)
        /\ AbsentRequired = {}
              => \A i \in DOMAIN Declared : ~NamesMissing(validate_raised, i)

(* param1 (required) is absent, and so is a parameter that has a default *)
C10_Witness ==
    /\ validate_pc = "raised"
    /\ Len(Declared) = 2
    /\ AbsentRequired = {1}
    /\ AbsentDefaulted = {2}
    /\ NamesMissing(validate_raised, 1)

DeclaredNames == {Declared[i].name : i \in DOMAIN Declared}
ExtraEntries == SelectSeq(parameters, LAMBDA en : en.k \notin DeclaredNames)

ExtraParametersText(d) ==
    "Extra parameters provided that are not defined in the function's input parameters: "
    \o repr_dict(d) \o "."

(* the report about extra keys the error raised carries, if any: the entries *)
(* of the provided mapping it lists                                          *)
ExtrasReported ==
    {d \in SUBSET (DOMAIN parameters) :
        /\ d /= {}
        /\ validate_pc = "raised"
        /\ ExtraParametersText(SelectSeq(parameters,
                                          LAMBDA en : \E i \in d : parameters[i] = en))
              \in validate_raised.reports}
(* C11: validate_input_params fails whenever the provided mapping has a key   *)
(* that is not a declared parameter, and the error about extra keys is one    *)
(* report that enumerates all of them (the error raised carries it unless a   *)
(* required parameter is missing, which is reported first); no error reports  *)
(* some of the extra keys only, or a declared key as extra; when the function *)
(* declares no input parameters and the mapping is not empty the error        *)
(* enumerates the whole mapping.                                              *)
C11_ExtrasReportedTogether ==
    Validated =>
        /\ (~IsNone(function_info.input_params) /\ ExtraEntries /= <<>>)
              => /\ validate_pc = "raised"
                 /\ \/ \E i \in AbsentRequired : NamesMissing(validate_raised, i)
                    \/ ExtraParametersText(ExtraEntries) \in validate_raised.reports
                 /\ AbsentRequired = {}
                       => ExtraParametersText(ExtraEntries) \in validate_raised.reports
        /\ ~IsNone(function_info.input_params)
              => \A d \in ExtrasReported :
                    d = {i \in DOMAIN parameters : parameters[i].k \notin DeclaredNames}
        /\ (IsNone(function_info.input_params) /\ parameters /= <<>>)
              => /\ validate_pc = "raised"
                 /\ validate_raised.reports
                      = {"Function does not have input parameters, but parameters "
                         \o repr_dict(parameters) \o " were provided."}
        /\ (/\ IsNone(function_info.input_params)
            /\ parameters = <<Entry("param1", PyInt(1)), Entry("param2", PyStr("value"))>>)
              => validate_raised.reports
                   = {"Function does not have input parameters, but parameters "
                      \o "{'param1': 1, 'param2': 'value'} were provided."}

(* two undeclared keys next to a declared one *)
C11_Witness ==
    /\ validate_pc = "raised"
    /\ Len(Declared) = 1
    /\ Len(parameters) = 3
    /\ Len(ExtraEntries) = 2
    /\ validate_raised.reports
         = {"Extra parameters provided that are not defined in the function's input "
            \o "parameters: {'param2': 'value', 'param3': 'value'}."}

(* the declared parameters the mapping provides *)
ProvidedDeclared == {i \in DOMAIN Declared : DictHas(parameters, Declared[i].name)}

(* the declared parameters whose provided value is not of an accepted type *)
ByMockClient == validate_self = "MockClient"
Mismatching ==
    {i \in DOMAIN Declared :
        /\ DictHas(parameters, Declared[i].name)
        /\ IF ByMockClient
           THEN DictGet(parameters, Declared[i].name).t /= Declared[i].type_name
           ELSE ~isinstance(DictGet(parameters, Declared[i].name),
                            SQL_TYPE_TO_PYTHON_TYPE_MAPPING[Declared[i].type_name])}

MismatchText(i) ==
    IF ByMockClient
    THEN "Expected type " \o Declared[i].type_name \o ", but got "
         \o DictGet(parameters, Declared[i].name).t
    ELSE "Parameter " \o Declared[i].name \o " should be of type " \o Declared[i].type_name
         \o " (corresponding python type "
         \o (IF Declared[i].type_name = "INT" THEN "<class 'int'>" ELSE "<class 'str'>")
         \o "), but got "
         \o (IF DictGet(parameters, Declared[i].name).t = "int" THEN "<class 'int'>"
             ELSE "<class 'str'>")

(* the message between the quotes of its repr(): double quotes when it holds *)
(* an apostrophe                                                             *)
RECURSIVE MismatchReport(_, _)
MismatchReport(i, which) ==
    IF i > Len(Declared) THEN <<>>
    ELSE (IF i \in which
          THEN <<"'" \o Declared[i].name \o "': "
                 \o (IF ByMockClient THEN "'" \o MismatchText(i) \o "'"
                     ELSE "\"" \o MismatchText(i) \o "\"")>>
          ELSE <<>>) \o MismatchReport(i + 1, which)
(* the report that maps the parameters of which to their messages *)
InvalidParametersText(which) ==
    "Invalid parameters provided: {" \o Join(MismatchReport(1, which), ", ") \o "}."

(* C12: validate_input_params checks the type of every declared parameter    *)
(* that is provided and reports all the mismatches in one error that maps    *)
(* each parameter name to its message; it does not stop at the first one.    *)
(* Whatever else the mapping holds, a report of mismatches is the report of  *)
(* all of them, in declared order, and none is reported when every provided  *)
(* value is of its type; the error raised carries that report whenever a     *)
(* value mismatches, with or without undeclared keys, unless a required      *)
(* parameter is missing, which section 4.4 reports first.                    *)
C12_MismatchesReportedTogether ==
    (Validated /\ ~IsNone(function_info.input_params)) =>
        /\ \A which \in SUBSET ProvidedDeclared :
              (/\ which /= {}
               /\ validate_pc = "raised"
               /\ InvalidParametersText(which) \in validate_raised.reports)
                 => which = Mismatching
        /\ (Mismatching /= {} /\ AbsentRequired = {})
              => /\ validate_pc = "raised"
                 /\ InvalidParametersText(Mismatching) \in validate_raised.reports
        /\ (validate_pc = "raised" /\ AbsentRequired = {})
              => validate_raised.reports
                   = (IF Mismatching /= {} THEN {InvalidParametersText(Mismatching)}
                      ELSE {})
                     \cup (IF ExtraEntries /= <<>>
                           THEN {ExtraParametersText(ExtraEntries)} ELSE {})
        /\ (Mismatching = {} /\ AbsentRequired = {} /\ ExtraEntries = <<>>)
              => validate_pc = "returned"

(* both provided values are of the wrong type, next to an undeclared key *)
C12_Witness ==
    /\ validate_pc = "raised"
    /\ Cardinality(Mismatching) = 2
    /\ Len(ExtraEntries) = 1
    /\ validate_raised.reports
         = {"Invalid parameters provided: {'param1': \"Parameter param1 should be of type "
            \o "INT (corresponding python type <class 'int'>), but got <class 'str'>\", "
            \o "'param2': \"Parameter param2 should be of type STRING (corresponding "
            \o "python type <class 'str'>), but got <class 'int'>\"}.",
            "Extra parameters provided that are not defined in the function's input "
            \o "parameters: {'param3': 'value'}."}

KeysFit ==
    /\ AbsentRequired = {}
    /\ \A i \in DOMAIN parameters : parameters[i].k \in DeclaredNames

(* C13 as stated: validate never fails when the keys of provided contain     *)
(* every required (no-default) parameter name and no undeclared key.         *)
C13_NeverFailsOnKeys ==
    (Validated /\ KeysFit) => validate_pc = "returned"

(* C13, amended: validate never fails when the keys of provided contain      *)
(* every required parameter name and no undeclared key, and every provided   *)
(* value passes the type check of its parameter.                             *)
C13_ValidWhenKeysAndTypesFit ==
    (Validated /\ KeysFit /\ Mismatching = {}) =>
        /\ validate_pc = "returned"
        /\ validate_raised = None

(* the required parameter is provided, the one with a default is not *)
C13_Witness ==
    /\ validate_pc = "returned"
    /\ Len(Declared) = 2
    /\ AbsentDefaulted = {2}
    /\ Len(parameters) = 1
    /\ Mismatching = {}

-----------------------------------------------------------------------------
(* Properties of the execution options and the reserved name (Spec, FairSpec) *)

(* an option name the execute_statement of this client takes *)
AcceptedOption(k) == client.execute_statement.var_keyword \/ k \in ExecuteStatementSignature

OptionsPassed ==
    /\ DictHas(parameters, EXECUTE_FUNCTION_ARG_NAME)
    /\ DictGet(parameters, EXECUTE_FUNCTION_ARG_NAME).t = "dict"

PassedNow == DictGet(parameters, EXECUTE_FUNCTION_ARG_NAME).v

OptionValue(options, k) ==
    IF \E i \in DOMAIN PassedNow : PassedNow[i].k = k
    THEN DictGet(PassedNow, k)
    ELSE DictGet(DEFAULT_EXECUTE_FUNCTION_ARGS, k)

(* C19: when the caller passes options under the reserved key, option names  *)
(* the execution capability does not accept make the call fail with one      *)
(* error naming all of them, before execute_statement is called; accepted    *)
(* options override the defaults wait_timeout=30s, row_limit=100,            *)
(* byte_limit=4096 in the call that is made.                                 *)
C19_OptionsCheckedAndApplied ==
    [][(/\ calls' = calls + 1
        /\ OptionsPassed
        /\ ~ReservedNameConflict(function_info))
       => LET invalid == {k \in DictKeys(PassedNow) : ~AcceptedOption(k)}
          IN  /\ invalid /= {}
                    => /\ pc' = "raised"
                       /\ raised'.t = "ValueError"
                       /\ raised'.keys = invalid
                       /\ submitted' = submitted
              /\ (invalid = {} /\ Truthy(client.warehouse_id))
                    => /\ Len(submitted') = Len(submitted) + 1
                       /\ LET options == submitted'[Len(submitted')].options
                          IN  /\ DictKeys(options)
                                   = {"wait_timeout", "row_limit", "byte_limit"}
                                     \cup DictKeys(PassedNow)
                              /\ \A k \in DictKeys(options) :
                                    DictGet(options, k) = OptionValue(options, k)]_vars

(* C20: a function with a declared input parameter named __execution_args__  *)
(* makes every execution fail with the reserved-name ValueError, before      *)
(* execute_statement or get_statement is called.                             *)
C20_ReservedNameConflict ==
    /\ (calls > 0 /\ \E i \in DOMAIN Declared : Declared[i].name = "__execution_args__")
          => /\ pc = "raised"
             /\ raised = [t |-> "ValueError", keys |-> {},
                          msg |-> "Parameter name conflicts with the reserved argument "
                                  \o "name for executing functions: __execution_args__. "
                                  \o "Please rename the parameter __execution_args__."]
             /\ submitted = <<>>
             /\ events = <<>>
             /\ response = None
    /\ (pc = "raised" /\ raised.t = "ValueError" /\ raised.keys = {}
        /\ ~Answered
        /\ \A i \in DOMAIN Declared : Declared[i].name /= "__execution_args__")
          => raised.msg = "warehouse_id is required for executing UC functions in Databricks"

(* the call of the test: bad_function_info with {"__execution_args__": "value"} *)
C20_Witness ==
    /\ calls = 1
    /\ pc = "raised"
    /\ Len(Declared) = 1
    /\ Declared[1].name = "__execution_args__"
    /\ parameters = <<Entry("__execution_args__", PyStr("value"))>>
    /\ client.warehouse_id = PyStr("fake_warehouse_id")
    /\ submitted = <<>>

-----------------------------------------------------------------------------
(* ucai/core/utils/docstring_utils.py: parse_docstring. A str is the       *)
(* sequence of its characters here.                                         *)

Str(c) == [t |-> "str", chars |-> c]

(* the characters str.strip() and str.lstrip() remove *)
IsSpace(ch) == ch \in {" ", "\n", "\t"}

RECURSIVE lstrip(_)
lstrip(c) ==
    IF c = <<>> THEN <<>>
    ELSE IF IsSpace(c[1]) THEN lstrip(Tail(c))
    ELSE c

RECURSIVE rstrip(_)
rstrip(c) ==
    IF c = <<>> THEN <<>>
    ELSE IF IsSpace(c[Len(c)]) THEN rstrip(SubSeq(c, 1, Len(c) - 1))
    ELSE c

strip(c) == rstrip(lstrip(c))

(* the position of the first ch in c, 0 when there is none *)
find(c, ch) ==
    IF \E i \in DOMAIN c : c[i] = ch
    THEN CHOOSE i \in DOMAIN c : c[i] = ch /\ \A j \in 1 .. (i - 1) : c[j] /= ch
    ELSE 0

RECURSIVE splitlines(_)
splitlines(c) ==
    IF c = <<>> THEN <<>>
    ELSE LET nl == find(c, "\n")
         IN  IF nl = 0 THEN <<c>>
             ELSE <<SubSeq(c, 1, nl - 1)>> \o splitlines(SubSeq(c, nl + 1, Len(c)))

(* the first part only *)
join_spaces_first(parts) == IF parts = <<>> THEN <<>> ELSE parts[1]
(* " ".join(parts) *)
RECURSIVE join_spaces(_)
join_spaces(parts) ==
    IF parts = <<>> THEN <<>>
    ELSE IF Len(parts) = 1 THEN parts[1]
    ELSE parts[1] \o <<" ">> \o join_spaces(Tail(parts))

Args_chars == <<"A", "r", "g", "s", ":">>
Arguments_chars == <<"A", "r", "g", "u", "m", "e", "n", "t", "s", ":">>
Returns_chars == <<"R", "e", "t", "u", "r", "n", "s", ":">>

DocstringInfo(description, params, rets) ==
    [t |-> "DocstringInfo", description |-> description, params |-> params,
     returns |-> rets]

(* `if current_param`: neither None nor "" *)
StrTruthy(x) == ~IsNone(x) /\ x.chars /= <<>>

(* parsed_params[current_param] = description, when description is not empty *)
StoreParam(loc) ==
    LET description == strip(join_spaces(loc.param_description_lines))
    IN  IF description /= <<>>
        THEN DictSet(loc.parsed_params, loc.current_param.chars, description)
        ELSE loc.parsed_params

(* lines 58-63, 85-90 and 100-105: the open parameter stored and closed *)
FlushParam(loc) ==
    IF StrTruthy(loc.current_param) /\ loc.param_description_lines /= <<>>
    THEN [loc EXCEPT !.parsed_params = StoreParam(loc),
                     !.current_param = None,
                     !.param_description_lines = <<>>]
    ELSE loc

FlushReturns(loc) ==
    IF loc.return_description_lines /= <<>>
    THEN [loc EXCEPT !.returns = Str(strip(join_spaces(loc.return_description_lines)))]
    ELSE loc

(* the line that ended a section starts the description again *)
Redispatch_description(loc, stripped_line) ==
    IF stripped_line \in {Args_chars, Arguments_chars}
    THEN [loc EXCEPT !.state = "ARGS", !.param_indent = None]
    ELSE IF stripped_line = Returns_chars
    THEN [loc EXCEPT !.state = "RETURNS", !.return_indent = None]
    ELSE [loc EXCEPT !.state = "DESCRIPTION"]
(* lines 107-114 and 155-162: the line that ended a section, looked at again *)
Redispatch(loc, stripped_line) ==
    IF stripped_line \in {Args_chars, Arguments_chars}
    THEN [loc EXCEPT !.state = "ARGS", !.param_indent = None]
    ELSE IF stripped_line = Returns_chars
    THEN [loc EXCEPT !.state = "RETURNS", !.return_indent = None]
    ELSE [loc EXCEPT !.state = "END"]

(* lines 120-128: the parameter name of "name (type): text" *)
ParamName(stripped_line) ==
    LET param_part == strip(SubSeq(stripped_line, 1, find(stripped_line, ":") - 1))
    IN  IF find(param_part, "(") /= 0 /\ param_part /= <<>> /\ param_part[Len(param_part)] = ")"
        THEN strip(SubSeq(param_part, 1, find(param_part, "(") - 1))
        ELSE param_part

DescPart(stripped_line) ==
    strip(SubSeq(stripped_line, find(stripped_line, ":") + 1, Len(stripped_line)))

(* a line that opens a parameter whatever its indent *)
StartsParam_any_indent(indent, base) == TRUE
(* line 131 *)
StartsParam(indent, base) == indent = base

(* lines 117-146 *)
ArgsLine(loc, stripped_line, indent) ==
    IF find(stripped_line, ":") /= 0
    THEN IF StartsParam(indent, loc.param_indent.v)
         THEN [loc EXCEPT
                 !.parsed_params =
                     IF StrTruthy(loc.current_param) /\ loc.param_description_lines /= <<>>
                     THEN StoreParam(loc) ELSE @,
                 !.current_param = Str(ParamName(stripped_line)),
                 !.param_description_lines =
                     IF DescPart(stripped_line) /= <<>> THEN <<DescPart(stripped_line)>>
                     ELSE <<>>]
         ELSE IF StrTruthy(loc.current_param)
         THEN [loc EXCEPT !.param_description_lines = Append(@, stripped_line)]
         ELSE loc
    ELSE IF StrTruthy(loc.current_param)
    THEN [loc EXCEPT !.param_description_lines = Append(@, stripped_line)]
    ELSE loc

(* lines 57-66: a blank line *)
BlankLine(loc) ==
    IF /\ loc.state = "ARGS"
       /\ StrTruthy(loc.current_param)
       /\ loc.param_description_lines /= <<>>
    THEN FlushParam(loc)
    ELSE IF loc.state = "RETURNS" THEN FlushReturns(loc)
    ELSE loc

(* a line read in the END state looked at as a line that ended a section *)
EndLine_reopens(loc, stripped_line) == Redispatch(loc, stripped_line)
(* lines 71-165: no branch of the loop body handles State.END *)
EndLine(loc, stripped_line) == loc

(* lines 56-165: one iteration of the loop *)
ProcessLine(loc, line) ==
    IF strip(line) = <<>> THEN BlankLine(loc)
    ELSE
    LET stripped_line == lstrip(line)
        indent == Len(line) - Len(stripped_line)
    IN  IF loc.state = "DESCRIPTION"
        THEN IF stripped_line \in {Args_chars, Arguments_chars}
             THEN [loc EXCEPT !.state = "ARGS", !.param_indent = None]
             ELSE IF stripped_line = Returns_chars
             THEN [loc EXCEPT !.state = "RETURNS", !.return_indent = None]
             ELSE [loc EXCEPT !.description_lines = Append(@, stripped_line)]
        ELSE IF loc.state = "ARGS"
        THEN IF stripped_line = Returns_chars
             THEN [FlushParam(loc) EXCEPT !.state = "RETURNS"]
             ELSE LET based == IF IsNone(loc.param_indent)
                               THEN [loc EXCEPT !.param_indent = PyInt(indent)]
                               ELSE loc
                  IN  IF indent < based.param_indent.v
                      THEN Redispatch(FlushParam(based), stripped_line)
                      ELSE ArgsLine(based, stripped_line, indent)
        ELSE IF loc.state = "RETURNS"
        THEN LET based == IF IsNone(loc.return_indent)
                          THEN [loc EXCEPT !.return_indent = PyInt(indent)]
                          ELSE loc
             IN  IF indent < based.return_indent.v
                 THEN Redispatch(FlushReturns(based), stripped_line)
                 ELSE [based EXCEPT !.return_description_lines = Append(@, stripped_line)]
        ELSE EndLine(loc, stripped_line)

(* lines 167-172 *)
FinalFlush(loc) ==
    LET stored == IF /\ loc.state = "ARGS"
                     /\ StrTruthy(loc.current_param)
                     /\ loc.param_description_lines /= <<>>
                  THEN [loc EXCEPT !.parsed_params = StoreParam(loc)]
                  ELSE loc
    IN  IF stored.state = "RETURNS" THEN FlushReturns(stored) ELSE stored

EmptyDocstringError ==
    Exception("ValueError",
              "Docstring is empty. Please provide a docstring with a function description.")
MissingDescriptionError ==
    Exception("ValueError",
              "Function description is missing in the docstring. "
              \o "Please provide a function description.")

(* lines 37-40 *)
IsEmptyDocstring_untrimmed(c) == c = <<>>
IsEmptyDocstring(c) == c = <<>> \/ strip(c) = <<>>

(* lines 174-181 *)
ParseResult_undescribed(loc) ==
    DocstringInfo(Str(strip(join_spaces(loc.description_lines))), loc.parsed_params,
                  loc.returns)
ParseResult(loc) ==
    LET description == strip(join_spaces(loc.description_lines))
    IN  IF description = <<>> THEN MissingDescriptionError
        ELSE DocstringInfo(Str(description), loc.parsed_params, loc.returns)

(* the local variables of parse_docstring *)
Locals ==
    [state |-> state, description_lines |-> description_lines,
     parsed_params |-> parsed_params, returns |-> returns,
     current_param |-> current_param,
     param_description_lines |-> param_description_lines,
     return_description_lines |-> return_description_lines,
     param_indent |-> param_indent, return_indent |-> return_indent]

SetLocals(loc) ==
    /\ state' = loc.state
    /\ description_lines' = loc.description_lines
    /\ parsed_params' = loc.parsed_params
    /\ returns' = loc.returns
    /\ current_param' = loc.current_param
    /\ param_description_lines' = loc.param_description_lines
    /\ return_description_lines' = loc.return_description_lines
    /\ param_indent' = loc.param_indent
    /\ return_indent' = loc.return_indent

other_vars == <<function_info, parameters, stmt_vars, exec_vars, interval_vars, validate_vars,
                catalog_vars, slot_vars>>

(* lines 37-54 *)
ParseBegin ==
    /\ doc_pc = "called"
    /\ IF IsEmptyDocstring(docstring)
       THEN /\ doc_pc' = "raised"
            /\ doc_result' = EmptyDocstringError
            /\ UNCHANGED <<lines, line_idx>>
       ELSE /\ doc_pc' = "loop"
            /\ lines' = Append(splitlines(strip(docstring)), <<>>)
            /\ line_idx' = 1
            /\ UNCHANGED doc_result
    /\ UNCHANGED <<docstring, state, description_lines, parsed_params, returns, current_param,
                   param_description_lines, return_description_lines, param_indent,
                   return_indent>>
    /\ UNCHANGED other_vars

(* lines 56-165: the next line of the loop *)
ParseLine ==
    /\ doc_pc = "loop"
    /\ line_idx <= Len(lines)
    /\ SetLocals(ProcessLine(Locals, lines[line_idx]))
    /\ line_idx' = line_idx + 1
    /\ UNCHANGED <<docstring, doc_pc, lines, doc_result>>
    /\ UNCHANGED other_vars

(* lines 167-181 *)
ParseEnd ==
    /\ doc_pc = "loop"
    /\ line_idx > Len(lines)
    /\ SetLocals(FinalFlush(Locals))
    /\ doc_result' = ParseResult(FinalFlush(Locals))
    /\ doc_pc' = IF doc_result'.t = "DocstringInfo" THEN "returned" ELSE "raised"
    /\ UNCHANGED <<docstring, lines, line_idx>>
    /\ UNCHANGED other_vars

(* the lines the docstrings are made of: description text, blank lines, the *)
(* section headers, parameters with and without text or type, continuation  *)
(* lines with and without a colon                                           *)
LinePool ==
    { <<"D">>,
      <<>>,
      <<" ", " ">>,
      Args_chars,
      Returns_chars,
      <<" ", "x", ":", " ", "a">>,
      <<" ", "x", ":">>,
      <<" ", "y", " ", "(", "i", ")", ":", " ", "b">>,
      <<" ", " ", "k", ":", " ", "c">>,
      <<" ", "m">> }

MaxBodyLines == 3

RECURSIVE LineSeqs(_)
LineSeqs(n) ==
    IF n = 0 THEN {<<>>}
    ELSE LineSeqs(n - 1) \cup {Append(ls, l) : ls \in LineSeqs(n - 1), l \in LinePool}

(* what comes before the body: nothing, a description and Args:, or a        *)
(* description, a Returns: section with an indented line, and Args:          *)
DocHeads ==
    { <<>>,
      <<<<"D">>, Args_chars>>,
      <<<<"D">>, Returns_chars, <<" ", " ", "k", ":", " ", "c">>, Args_chars>> }

RECURSIVE join_lines(_)
join_lines(ls) ==
    IF ls = <<>> THEN <<>>
    ELSE IF Len(ls) = 1 THEN ls[1]
    ELSE ls[1] \o <<"\n">> \o join_lines(Tail(ls))

Docstrings ==
    {join_lines(head \o body) : head \in DocHeads, body \in LineSeqs(MaxBodyLines)}
    \cup { <<"\t">>, <<"\n", " ">>, <<" ", "D", "\n">>, <<"\n", "D">> }

InitDoc ==
    /\ function_info = None
    /\ parameters = <<>>
    /\ StmtIdle
    /\ ExecIdle
    /\ IntervalIdle
    /\ ValidateIdle
    /\ docstring \in Docstrings
    /\ doc_pc = "called"
    /\ DocLocalsUnset
    /\ CatalogIdle
    /\ SlotIdle

NextDoc == ParseBegin \/ ParseLine \/ ParseEnd

SpecDoc == InitDoc /\ [][NextDoc]_vars

(* the call runs to its end *)
FairSpecDoc == SpecDoc /\ WF_vars(NextDoc)

-----------------------------------------------------------------------------
(* validate_full_function_name, DatabricksFunctionClient.get_function and    *)
(* list_functions, process_function_names (one loop iteration per step).     *)
(* Names are kept as their characters.                                       *)

(* function_name.split(".") *)
RECURSIVE split(_, _)
split(c, sep) ==
    IF find(c, sep) = 0 THEN <<c>>
    ELSE <<SubSeq(c, 1, find(c, sep) - 1)>> \o split(SubSeq(c, find(c, sep) + 1, Len(c)), sep)

(* utils.py lines 262-265 *)
FullFunctionName(catalog_name, schema_name, function_name) ==
    [t |-> "FullFunctionName", catalog_name |-> catalog_name, schema_name |-> schema_name,
     function_name |-> function_name]

(* utils.py lines 280-284; the message holds the name *)
InvalidFunctionNameError(function_name) ==
    [t |-> "ValueError",
     msg |-> "Invalid function name: {function_name}, expecting format "
             \o "<catalog_name>.<schema_name>.<function_name>.",
     function_name |-> function_name]

(* utils.py lines 270-285 *)
validate_full_function_name(function_name) ==
    LET splits == split(function_name, ".")
    IN  IF Len(splits) /= 3 THEN InvalidFunctionNameError(function_name)
        ELSE FullFunctionName(splits[1], splits[2], splits[3])

WildcardError ==
    Exception("ValueError",
              "function name cannot include *, to get all functions in a catalog and schema, "
              \o "please use list_functions API instead.")

(* the requests the remote catalog receives *)
FunctionsGet(function_name) == [op |-> "functions.get", name |-> function_name]
FunctionsList(query, json) ==
    [op |-> "GET /api/2.1/unity-catalog/functions", query |-> query,
     functions |-> DictPopValue(json, "functions", <<>>),
     next_page_token |-> DictPopValue(json, "next_page_token", None)]
SparkSql(sql_body) == [op |-> "spark.sql", sqlQuery |-> sql_body]

(* what functions.get answers for a name *)
RemoteFunction(full_name) == [t |-> "FunctionInfo", full_name |-> full_name]

(* databricks.py lines 177-199: what get_function returns or raises, and the *)
(* requests it sends                                                         *)
get_function(function_name) ==
    LET splits == validate_full_function_name(function_name)
    IN  IF splits.t = "ValueError" THEN [outcome |-> splits, sent |-> <<>>]
        ELSE IF find(splits.function_name, "*") /= 0
        THEN [outcome |-> WildcardError, sent |-> <<>>]
        ELSE [outcome |-> RemoteFunction(function_name),
              sent |-> <<FunctionsGet(function_name)>>]

(* utils.py line 59: the string "100" *)
UC_LIST_FUNCTIONS_MAX_RESULTS == Str(<<"1", "0", "0">>)

(* int(text) of utils.py line 139: blanks around the number, a sign and      *)
(* single underscores between digits are allowed; anything else raises       *)
IsIntBody(c) ==
    /\ c /= <<>>
    /\ \A i \in DOMAIN c :
          \/ IsDigit(c[i])
          \/ /\ c[i] = "_"
             /\ 1 < i
             /\ i < Len(c)
             /\ IsDigit(c[i - 1])
             /\ IsDigit(c[i + 1])
int(text) ==
    LET stripped == strip(text.chars)
        signed == stripped /= <<>> /\ stripped[1] \in {"+", "-"}
        body == IF signed THEN Tail(stripped) ELSE stripped
        magnitude == DigitsValue(SelectSeq(body, IsDigit))
    IN  IF IsIntBody(body)
        THEN PyInt(IF signed /\ stripped[1] = "-" THEN 0 - magnitude ELSE magnitude)
        ELSE Exception("ValueError",
                       "invalid literal for int() with base 10: '"
                       \o Join(text.chars, "") \o "'")

(* databricks.py lines 226-235: None stands for a key that is left out *)
ListQuery(catalog, schema, max_results, page_token) ==
    [catalog_name |-> catalog, max_results |-> max_results, page_token |-> page_token,
     schema_name |-> schema]

(* the remote catalog pages the functions of the schema c.s; a page is the   *)
(* json dict of an answer without its next_page_token: the request           *)
(* without page token gets the first page, the token of a page gets the next *)
Chars_c == <<"c">>
Chars_s == <<"s">>
PageToken(i) == PyStr("page" \o ToString(i + 1))
PageJson(i) ==
    IF i < Len(pages) THEN Append(pages[i], Entry("next_page_token", PageToken(i)))
    ELSE pages[i]
RemoteList(query) ==
    IF query.catalog_name /= Chars_c \/ query.schema_name /= Chars_s
    THEN <<>>
    ELSE IF IsNone(query.page_token) THEN PageJson(1)
    ELSE PageJson(1 + CHOOSE i \in DOMAIN pages : PageToken(i) = query.page_token)

(* databricks.py lines 236-239 *)
function_infos(json) ==
    IF DictHas(json, "functions")
    THEN [i \in DOMAIN DictGet(json, "functions") |->
             RemoteFunction(DictGet(json, "functions")[i])]
    ELSE <<>>

(* list_functions that reports every page as the last one *)
list_functions_single_page(catalog, schema, max_results, page_token) ==
    LET json == RemoteList(ListQuery(catalog, schema, max_results, page_token))
    IN  [t |-> "PagedList", items |-> function_infos(json), token |-> None]
(* databricks.py lines 201-241 *)
list_functions(catalog, schema, max_results, page_token) ==
    LET json == RemoteList(ListQuery(catalog, schema, max_results, page_token))
    IN  [t |-> "PagedList", items |-> function_infos(json),
         token |-> DictPopValue(json, "next_page_token", None)]

(* uc_function_to_tool_func, the conversion the caller passes *)
Tool(kind, name) == [t |-> "tool", built_from |-> kind, name |-> name]

(* utils.py lines 153-155 *)
RECURSIVE AddTools(_, _)
AddTools(dict, functions) ==
    IF functions = <<>> THEN dict
    ELSE AddTools(IF DictHas(dict, Head(functions).full_name) THEN dict
                  ELSE DictSet(dict, Head(functions).full_name,
                               Tool("function_info", Head(functions).full_name)),
                  Tail(functions))

(* the letters, for re.IGNORECASE and \w *)
AsciiUpper ==
    <<"A", "B", "C", "D", "E", "F", "G", "H", "I", "J", "K", "L", "M",
      "N", "O", "P", "Q", "R", "S", "T", "U", "V", "W", "X", "Y", "Z">>
AsciiLower ==
    <<"a", "b", "c", "d", "e", "f", "g", "h", "i", "j", "k", "l", "m",
      "n", "o", "p", "q", "r", "s", "t", "u", "v", "w", "x", "y", "z">>
upper(ch) ==
    IF \E i \in DOMAIN AsciiLower : AsciiLower[i] = ch
    THEN AsciiUpper[CHOOSE i \in DOMAIN AsciiLower : AsciiLower[i] = ch]
    ELSE ch
lower(ch) ==
    IF \E i \in DOMAIN AsciiUpper : AsciiUpper[i] = ch
    THEN AsciiLower[CHOOSE i \in DOMAIN AsciiUpper : AsciiUpper[i] = ch]
    ELSE ch
(* str.lower *)
str_lower(c) == [i \in DOMAIN c |-> lower(c[i])]
(* a character of the class [\w.] *)
IsNameChar(ch) ==
    \/ IsDigit(ch)
    \/ ch \in {"_", "."}
    \/ \E i \in DOMAIN AsciiUpper : ch \in {AsciiUpper[i], AsciiLower[i]}

(* The pattern of extract_function_name, databricks.py lines 59-69, matched  *)
(* as re matches it. A matcher takes the text and a position and gives the   *)
(* position after what it matched, or 0 when it does not match.              *)
CREATE_kw == <<"C", "R", "E", "A", "T", "E">>
OR_kw == <<"O", "R">>
REPLACE_kw == <<"R", "E", "P", "L", "A", "C", "E">>
TEMPORARY_kw == <<"T", "E", "M", "P", "O", "R", "A", "R", "Y">>
FUNCTION_kw == <<"F", "U", "N", "C", "T", "I", "O", "N">>
IF_kw == <<"I", "F">>
NOT_kw == <<"N", "O", "T">>
EXISTS_kw == <<"E", "X", "I", "S", "T", "S">>

(* the first position from pos on that holds no character of the class *)
RECURSIVE SkipSpaces(_, _)
SkipSpaces(c, pos) ==
    IF pos <= Len(c) /\ IsSpace(c[pos]) THEN SkipSpaces(c, pos + 1) ELSE pos
RECURSIVE SkipNameChars(_, _)
SkipNameChars(c, pos) ==
    IF pos <= Len(c) /\ IsNameChar(c[pos]) THEN SkipNameChars(c, pos + 1) ELSE pos

(* word\s+ in any case: a following token starts with no blank, so \s+      *)
(* keeps all the blanks it finds                                             *)
MatchWord(c, pos, word) ==
    IF /\ pos /= 0
       /\ pos + Len(word) <= Len(c)
       /\ \A k \in DOMAIN word : upper(c[pos + k - 1]) = word[k]
       /\ IsSpace(c[pos + Len(word)])
    THEN SkipSpaces(c, pos + Len(word))
    ELSE 0

(* ([\w.]+)\s*\( at pos: the name captured, or None. A shorter name is      *)
(* followed by a character of the name, which is neither blank nor "("       *)
MatchName(c, pos) ==
    LET after == SkipNameChars(c, pos)
        paren == SkipSpaces(c, after)
    IN  IF pos /= 0 /\ after > pos /\ paren <= Len(c) /\ c[paren] = "("
        THEN Str(SubSeq(c, pos, after - 1))
        ELSE None

(* (?:IF\s+NOT\s+EXISTS\s+)? and the name: with the group, and without it   *)
(* when the match fails with it                                              *)
MatchIfNotExists(c, pos) ==
    LET grp == MatchWord(c, MatchWord(c, MatchWord(c, pos, IF_kw), NOT_kw), EXISTS_kw)
    IN  IF ~IsNone(MatchName(c, grp)) THEN MatchName(c, grp) ELSE MatchName(c, pos)
MatchFunction(c, pos) == MatchIfNotExists(c, MatchWord(c, pos, FUNCTION_kw))
MatchTemporary(c, pos) ==
    LET grp == MatchWord(c, pos, TEMPORARY_kw)
    IN  IF ~IsNone(MatchFunction(c, grp)) THEN MatchFunction(c, grp)
        ELSE MatchFunction(c, pos)
MatchOrReplace(c, pos) ==
    LET grp == MatchWord(c, MatchWord(c, pos, OR_kw), REPLACE_kw)
    IN  IF ~IsNone(MatchTemporary(c, grp)) THEN MatchTemporary(c, grp)
        ELSE MatchTemporary(c, pos)
(* the pattern at pos: group 1 of the match, or None *)
MatchCreate(c, pos) == MatchOrReplace(c, MatchWord(c, pos, CREATE_kw))
(* pattern.search: the match at the first position that has one *)
search(c) ==
    LET starts == {i \in DOMAIN c : ~IsNone(MatchCreate(c, i))}
    IN  IF starts = {} THEN None
        ELSE MatchCreate(c, CHOOSE i \in starts : \A j \in starts : i <= j)

(* databricks.py lines 54-77 *)
extract_function_name(sql_body) ==
    IF ~IsNone(search(sql_body.chars)) THEN search(sql_body.chars)
    ELSE Exception("ValueError",
                   "Could not extract function name from the sql body "
                   \o Join(sql_body.chars, "") \o ".\nPlease "
                   \o "make sure the sql body follows the syntax of CREATE FUNCTION "
                   \o "statement in Databricks: "
                   \o "https://docs.databricks.com/en/sql/language-manual/"
                   \o "sql-ref-syntax-ddl-create-sql-function.html#syntax.")

(* the session getOrCreate() gives: builder.serverless(True) or             *)
(* builder.remote(cluster_id=...)                                            *)
DatabricksSession(serverless, remote_cluster_id) ==
    [t |-> "DatabricksSession", serverless |-> serverless,
     cluster_id |-> remote_cluster_id, is_stopped |-> FALSE]

(* bool(x) of None, a str and an object *)
truthy(x) ==
    /\ ~IsNone(x)
    /\ x.t = "str" => x.chars /= <<>>

(* databricks.py lines 97-131: self.spark after the call, or what it raises; *)
(* the profile only names the configuration the builder reads                *)
set_default_spark_session(self_spark, self_cluster_id, installed) ==
    IF ~IsNone(self_spark) /\ ~self_spark.is_stopped THEN self_spark
    ELSE IF installed = "not installed"
    THEN Exception("ImportError",
                   "Could not import databricks-connect python package. "
                   \o "If you want to use databricks with dbconnect to create UC functions "
                   \o "then please install it with " \o Backquote
                   \o "pip install databricks-connect" \o Backquote \o ".")
    ELSE IF installed = "serverless" THEN DatabricksSession(TRUE, None)
    ELSE IF truthy(self_cluster_id) THEN DatabricksSession(FALSE, self_cluster_id)
    ELSE Exception("ValueError",
                   "cluster_id is required for connecting to a spark session in "
                   \o "Databricks. Please provide it when constructing the "
                   \o "DatabricksFunctionClient.")

catalog_other_vars == <<function_info, parameters, stmt_vars, exec_vars, interval_vars,
                        validate_vars, doc_vars, slot_vars>>

(* get_function(name), databricks.py lines 177-199 *)
GetNames ==
    { <<"c", ".", "s", ".", "f">>,
      <<"c", ".", "s", ".", "*">>,
      <<"c", ".", "s", ".", "f", "*">>,
      <<"c", ".", "s">>,
      <<"c", ".", "s", ".", "f", ".", "g">>,
      <<"f">>,
      <<>>,
      <<"*", ".", "s", ".", "f">> }
GetFunction ==
    /\ names_pc = "idle"
    /\ IsNone(get_result)
    /\ IsNone(create_call)
    /\ \E name \in GetNames :
          /\ get_name' = name
          /\ get_result' = get_function(name).outcome
          /\ remote_calls' = remote_calls \o get_function(name).sent
    /\ UNCHANGED <<environ, list_max_results, pages, function_names, tools_dict, names_pc,
                   name_idx, token, names_raised>>
    /\ UNCHANGED create_vars
    /\ UNCHANGED catalog_other_vars

(* utils.py lines 139-141 *)
ProcessBegin ==
    /\ names_pc = "idle"
    /\ IsNone(get_result)
    /\ LET value == int(IF IsNone(environ) THEN UC_LIST_FUNCTIONS_MAX_RESULTS ELSE environ)
       IN  IF value.t = "ValueError"
           THEN /\ names_pc' = "raised"
                /\ names_raised' = value
                /\ UNCHANGED <<name_idx, list_max_results>>
           ELSE /\ list_max_results' = value
                /\ names_pc' = "loop"
                /\ name_idx' = 1
                /\ UNCHANGED names_raised
    /\ UNCHANGED <<environ, pages, remote_calls, get_name, get_result, function_names,
                   tools_dict, token>>
    /\ UNCHANGED create_vars
    /\ UNCHANGED catalog_other_vars

(* utils.py lines 142-146 and 159-160: one name of the for loop, up to the   *)
(* while loop of a wildcard name                                             *)
ProcessName ==
    /\ names_pc = "loop"
    /\ name_idx <= Len(function_names)
    /\ LET name == function_names[name_idx]
           full_func_name == validate_full_function_name(name)
       IN  IF DictHas(tools_dict, name)
           THEN /\ name_idx' = name_idx + 1
                /\ UNCHANGED <<names_pc, tools_dict, token, names_raised>>
           ELSE IF full_func_name.t = "ValueError"
           THEN /\ names_pc' = "raised"
                /\ names_raised' = full_func_name
                /\ UNCHANGED <<name_idx, tools_dict, token>>
           ELSE IF full_func_name.function_name = <<"*">>
           THEN /\ names_pc' = "listing"
                /\ token' = None
                /\ UNCHANGED <<name_idx, tools_dict, names_raised>>
           ELSE /\ tools_dict' = DictSet(tools_dict, name, Tool("function_name", name))
                /\ name_idx' = name_idx + 1
                /\ UNCHANGED <<names_pc, token, names_raised>>
    /\ UNCHANGED <<environ, list_max_results, pages, remote_calls, get_name, get_result,
                   function_names>>
    /\ UNCHANGED create_vars
    /\ UNCHANGED catalog_other_vars

(* utils.py lines 147-158: one iteration of the while loop *)
ListPage ==
    /\ names_pc = "listing"
    /\ LET full_func_name == validate_full_function_name(function_names[name_idx])
           query == ListQuery(full_func_name.catalog_name, full_func_name.schema_name,
                              list_max_results.v, token)
           functions == list_functions(full_func_name.catalog_name,
                                       full_func_name.schema_name,
                                       list_max_results.v, token)
       IN  /\ remote_calls' = Append(remote_calls, FunctionsList(query, RemoteList(query)))
           /\ tools_dict' = AddTools(tools_dict, functions.items)
           /\ token' = functions.token
           /\ IF IsNone(functions.token)
              THEN /\ names_pc' = "loop"
                   /\ name_idx' = name_idx + 1
              ELSE UNCHANGED <<names_pc, name_idx>>
    /\ UNCHANGED <<environ, list_max_results, pages, get_name, get_result, function_names,
                   names_raised>>
    /\ UNCHANGED create_vars
    /\ UNCHANGED catalog_other_vars

(* utils.py line 161 *)
ProcessEnd ==
    /\ names_pc = "loop"
    /\ name_idx > Len(function_names)
    /\ names_pc' = "returned"
    /\ UNCHANGED <<environ, list_max_results, pages, remote_calls, get_name, get_result,
                   function_names, tools_dict, name_idx, token, names_raised>>
    /\ UNCHANGED create_vars
    /\ UNCHANGED catalog_other_vars

(* the function a statement of create_function names, as the catalog keeps  *)
(* it: a name of fewer than three segments is completed with the current     *)
(* catalog and schema of the session                                         *)
QualifiedName(name, current) ==
    LET splits == split(name, ".")
    IN  IF Len(splits) = 3 THEN name
        ELSE IF Len(splits) = 2 THEN current[1] \o <<".">> \o name
        ELSE current[1] \o <<".">> \o current[2] \o <<".">> \o name
(* the pages once the schema c.s holds full_name: a function the pages list  *)
(* stays where it is, a new one of the schema is listed on the last page     *)
PagesWith(full_name) ==
    LET splits == split(full_name, ".")
        listed == \E i \in DOMAIN pages :
                     /\ DictHas(pages[i], "functions")
                     /\ \E j \in DOMAIN DictGet(pages[i], "functions") :
                           DictGet(pages[i], "functions")[j] = full_name
        last == pages[Len(pages)]
    IN  IF Len(splits) /= 3 \/ splits[1] /= Chars_c \/ splits[2] /= Chars_s \/ listed
        THEN pages
        ELSE [pages EXCEPT ![Len(pages)] =
                 DictSet(last, "functions",
                         Append(DictPopValue(last, "functions", <<>>), full_name))]

(* the pages once the statement has run: a statement that creates a         *)
(* function names it as the pattern of extract_function_name reads it        *)
StatementRuns(sql, current) ==
    IF IsNone(search(sql)) THEN pages
    ELSE PagesWith(QualifiedName(search(sql).chars, current))

(* the sql bodies passed to create_function: statements that name c.s.h,     *)
(* f (in lower case, with OR REPLACE) and s.h (after blanks, with IF NOT     *)
(* EXISTS), a statement that creates nothing, and the empty string           *)
Name_h == <<"c", ".", "s", ".", "h">>
ReturnsOne ==
    <<"(", ")", " ", "R", "E", "T", "U", "R", "N", "S", " ", "I", "N", "T", " ",
      "R", "E", "T", "U", "R", "N", " ", "1">>
SqlBodies ==
    { Str(CREATE_kw \o <<" ">> \o FUNCTION_kw \o <<" ">> \o Name_h \o ReturnsOne),
      Str(str_lower(CREATE_kw \o <<" ">> \o OR_kw \o <<" ">> \o REPLACE_kw \o <<"\n">>
                    \o FUNCTION_kw \o <<" ", " ">>)
          \o <<"f", " ">> \o ReturnsOne),
      Str(<<" ", " ">> \o CREATE_kw \o <<" ">> \o FUNCTION_kw \o <<" ">> \o IF_kw
          \o <<" ">> \o NOT_kw \o <<" ">> \o EXISTS_kw \o <<" ", "s", ".", "h">>
          \o ReturnsOne),
      Str(<<"S", "E", "L", "E", "C", "T", " ", "1">>),
      Str(<<>>) }
NewFunction == [t |-> "CreateFunction", name |-> "h"]
CreateCalls ==
    {[t |-> "call", sql_function_body |-> b, function_info |-> None] :
        b \in SqlBodies \cup {None}}
    \cup {[t |-> "call", sql_function_body |-> b, function_info |-> NewFunction] :
             b \in {None, Str(<<"S", "E", "L", "E", "C", "T", " ", "1">>)}}
(* the current catalog and schema of the session that runs the statement *)
CurrentSchemas == {<<Chars_c, Chars_s>>, <<Chars_c, <<"d", "e", "f", "a", "u", "l", "t">>>>}

(* create_function(sql_function_body, function_info), databricks.py lines    *)
(* 138-175, called on the client while process_function_names runs on it or  *)
(* not. The call waits for the session, for the statement and for the        *)
(* function it reads back, so it takes a step up to each of them and other   *)
(* calls on the client come in between.                                      *)

(* lines 159-161 and 171-175: the checks of the two arguments *)
CreateBegin ==
    /\ create_pc = "idle"
    /\ IsNone(get_result)
    /\ \E call \in CreateCalls :
          /\ create_call' = call
          /\ IF truthy(call.sql_function_body) /\ truthy(call.function_info)
             THEN /\ create_pc' = "raised"
                  /\ create_result' = Exception("ValueError",
                                                "Only one of sql_function_body and "
                                                \o "function_info should be provided.")
             ELSE IF truthy(call.sql_function_body)
             THEN /\ create_pc' = "connect"
                  /\ UNCHANGED create_result
             ELSE IF truthy(call.function_info)
             THEN /\ create_pc' = "raised"
                  /\ create_result' = Exception("NotImplementedError",
                                                "Creating function using function_info is "
                                                \o "not supported yet.")
             ELSE /\ create_pc' = "raised"
                  /\ create_result' = Exception("ValueError",
                                                "Either function_info or sql_function_body "
                                                \o "should be provided.")
    /\ UNCHANGED <<spark, cluster_id, dbconnect, session_raised>>
    /\ UNCHANGED <<pages, remote_calls, get_name, get_result, function_names, tools_dict,
                   names_pc, name_idx, token, names_raised, environ, list_max_results>>
    /\ UNCHANGED catalog_other_vars

(* line 163: self.set_default_spark_session() gives the session or raises *)
CreateSession ==
    /\ create_pc = "connect"
    /\ LET session == set_default_spark_session(spark, cluster_id, dbconnect)
       IN  IF session.t = "DatabricksSession"
           THEN /\ spark' = session
                /\ create_pc' = "statement"
                /\ UNCHANGED create_result
           ELSE /\ create_pc' = "raised"
                /\ create_result' = session
                /\ UNCHANGED spark
    /\ UNCHANGED <<cluster_id, dbconnect, create_call, session_raised>>
    /\ UNCHANGED <<pages, remote_calls, get_name, get_result, function_names, tools_dict,
                   names_pc, name_idx, token, names_raised, environ, list_max_results>>
    /\ UNCHANGED catalog_other_vars

(* lines 164-169: self.spark.sql(sql_function_body). The statement fails, in *)
(* the session or on the remote side, or it runs, and the catalog holds the  *)
(* function it names from then on                                            *)
CreateStatement ==
    /\ create_pc = "statement"
    /\ remote_calls' = Append(remote_calls, SparkSql(create_call.sql_function_body))
    /\ \E sql_failed \in BOOLEAN :
          IF sql_failed
          THEN /\ create_pc' = "raised"
               /\ create_result' = Exception("ValueError",
                                             "Failed to create function with sql body: "
                                             \o Join(create_call.sql_function_body.chars, ""))
               /\ UNCHANGED pages
          ELSE /\ create_pc' = "get"
               /\ \E current \in CurrentSchemas :
                     pages' = StatementRuns(create_call.sql_function_body.chars, current)
               /\ UNCHANGED create_result
    /\ UNCHANGED <<spark, cluster_id, dbconnect, create_call, session_raised>>
    /\ UNCHANGED <<get_name, get_result, function_names, tools_dict, names_pc, name_idx,
                   token, names_raised, environ, list_max_results>>
    /\ UNCHANGED catalog_other_vars

(* line 170: return self.get_function(extract_function_name(...)) *)
CreateGet ==
    /\ create_pc = "get"
    /\ \E name \in {extract_function_name(create_call.sql_function_body)} :
          IF name.t = "ValueError"
          THEN /\ create_pc' = "raised"
               /\ create_result' = name
               /\ UNCHANGED remote_calls
          ELSE \E got \in {get_function(name.chars)} :
                  /\ create_pc' = IF got.sent = <<>> THEN "raised" ELSE "returned"
                  /\ create_result' = got.outcome
                  /\ remote_calls' = remote_calls \o got.sent
    /\ UNCHANGED <<spark, cluster_id, dbconnect, create_call, session_raised>>
    /\ UNCHANGED <<pages, get_name, get_result, function_names, tools_dict, names_pc,
                   name_idx, token, names_raised, environ, list_max_results>>
    /\ UNCHANGED catalog_other_vars

(* set_default_spark_session(), databricks.py lines 97-131, called by the    *)
(* caller itself: with an open session nothing changes                       *)
SetDefaultSparkSession ==
    /\ LET session == set_default_spark_session(spark, cluster_id, dbconnect)
       IN  IF session.t = "DatabricksSession"
           THEN /\ spark' = session
                /\ UNCHANGED session_raised
           ELSE /\ session_raised' = session
                /\ UNCHANGED spark
    /\ UNCHANGED <<cluster_id, dbconnect, create_call, create_pc, create_result>>
    /\ UNCHANGED <<pages, remote_calls, get_name, get_result, function_names, tools_dict,
                   names_pc, name_idx, token, names_raised, environ, list_max_results>>
    /\ UNCHANGED catalog_other_vars

(* stop_spark_session(), databricks.py lines 133-135: stop() of an open      *)
(* session, after which its is_stopped is True                               *)
StopSparkSession ==
    /\ IF ~IsNone(spark) /\ ~spark.is_stopped
       THEN spark' = [spark EXCEPT !.is_stopped = TRUE]
       ELSE UNCHANGED spark
    /\ UNCHANGED <<cluster_id, dbconnect, create_call, create_pc, create_result,
                   session_raised>>
    /\ UNCHANGED <<pages, remote_calls, get_name, get_result, function_names, tools_dict,
                   names_pc, name_idx, token, names_raised, environ, list_max_results>>
    /\ UNCHANGED catalog_other_vars

(* the inputs: lists of a wildcard name, a function name and a malformed     *)
(* name; a dict that is empty or holds a tool for c.s.f; a catalog of one to *)
(* MaxPages pages, each without the functions key or holding f or f and g,   *)
(* no function on two pages; a client that opens a serverless session; with  *)
(* the catalog of the one page of f also a page size set in the environment, *)
(* and the clients with or without a cluster id next to each                 *)
(* databricks-connect                                                        *)
MaxPages == 3
Name_f == <<"c", ".", "s", ".", "f">>
Name_g == <<"c", ".", "s", ".", "g">>
Wildcard == <<"c", ".", "s", ".", "*">>
NameLists ==
    { <<>>, <<Wildcard>>, <<Name_f>>, <<<<"c", ".", "s">>>>, <<Wildcard, Wildcard>>,
      <<Name_f, Wildcard>> }
PageContents ==
    {<<>>, <<Entry("functions", <<Name_f>>)>>, <<Entry("functions", <<Name_f, Name_g>>)>>}
RECURSIVE PageSeqs(_)
PageSeqs(n) ==
    IF n = 1 THEN {<<pg>> : pg \in PageContents}
    ELSE PageSeqs(n - 1) \cup {Append(ps, pg) : ps \in PageSeqs(n - 1), pg \in PageContents}
(* the catalogs: each function is listed once *)
Catalogs ==
    {ps \in PageSeqs(MaxPages) :
        \A i, j \in DOMAIN ps : (i /= j /\ ps[i] /= <<>>) => ps[j] = <<>>}
KeptTool == PyStr("tool of the caller")
(* UC_LIST_FUNCTIONS_MAX_RESULTS in the environment: unset, "7", and the     *)
(* texts "abc" and "" that are no number                                     *)
Environs == {None, Str(<<"7">>), Str(<<"a", "b", "c">>), Str(<<>>)}
(* the cluster id the client was constructed with and the databricks-connect *)
(* installed                                                                 *)
ClusterIds == {None, Str(<<"0", "6", "0", "1", "-", "d", "c", "b", "t", "e">>)}
Installed == {"not installed", "serverless", "cluster only"}
DefaultClient == cluster_id = None /\ dbconnect = "serverless"
(* the catalog that lists f on its one page *)
OnePage == <<<<Entry("functions", <<Name_f>>)>>>>

InitCatalog ==
    /\ function_info = None
    /\ parameters = <<>>
    /\ StmtIdle
    /\ ExecIdle
    /\ IntervalIdle
    /\ ValidateIdle
    /\ DocIdle
    /\ SlotIdle
    /\ pages \in Catalogs
    /\ function_names \in NameLists
    /\ tools_dict \in {<<>>, <<Entry(Name_f, KeptTool)>>}
    /\ environ \in Environs
    /\ cluster_id \in ClusterIds
    /\ dbconnect \in Installed
    /\ \/ DefaultClient /\ IsNone(environ)
       \/ DefaultClient /\ pages = OnePage
       \/ /\ IsNone(environ)
          /\ pages = OnePage
          /\ function_names = <<Wildcard>>
          /\ tools_dict = <<>>
    /\ CatalogLocalsUnset

NextCatalog ==
    \/ GetFunction
    \/ CreateBegin
    \/ CreateSession
    \/ CreateStatement
    \/ CreateGet
    \/ SetDefaultSparkSession
    \/ StopSparkSession
    \/ ProcessBegin
    \/ ProcessName
    \/ ListPage
    \/ ProcessEnd

SpecCatalog == InitCatalog /\ [][NextCatalog]_vars

-----------------------------------------------------------------------------
(* set_uc_function_client and get_uc_function_client: the process-wide       *)
(* reference to the active client and the mutex that guards it. Each thread  *)
(* runs a program of calls; a call takes the lock, writes or reads the       *)
(* reference, and gives the lock back.                                       *)

MaxThreads == 2
Threads == 1 .. MaxThreads

(* tests/functions/test_client.py lines 26-29 *)
MockClient(id) == [t |-> "MockClient", id |-> id]
(* the reference while an assignment to it is under way *)
Partial(value) == [t |-> "partial", of |-> value]

SetCall(c) == [op |-> "set_uc_function_client", client |-> c]
GetCall == [op |-> "get_uc_function_client", client |-> None]

(* the lock taken without waiting for its holder *)
LockFree_always(lock) == TRUE
(* the mutex is free *)
LockFree(lock) == lock = 0

(* the programs of thread th: nothing; client_check of test_client.py lines  *)
(* 82-84; clearing and reading; the sequential start of the test, lines      *)
(* 76-80                                                                     *)
ProgramsOf(th) ==
    { <<>>,
      <<SetCall(MockClient(th)), GetCall>>,
      <<SetCall(None), GetCall>>,
      <<SetCall(MockClient(th)), GetCall, SetCall(None), GetCall>> }

CurrentCall(th) == programs[th][op_idx[th]]

slot_other_vars == <<function_info, parameters, stmt_vars, exec_vars, interval_vars,
                     validate_vars, doc_vars, catalog_vars>>

(* entering the guarded section of either call *)
Acquire(th) ==
    /\ thread_pc[th] = "call"
    /\ op_idx[th] <= Len(programs[th])
    /\ LockFree(client_lock)
    /\ client_lock' = th
    /\ thread_pc' = [thread_pc EXCEPT ![th] = "locked"]
    /\ UNCHANGED <<uc_function_client, programs, op_idx, thread_got>>
    /\ UNCHANGED slot_other_vars

(* set_uc_function_client: the assignment begins *)
WriteBegin(th) ==
    /\ thread_pc[th] = "locked"
    /\ CurrentCall(th).op = "set_uc_function_client"
    /\ uc_function_client' = Partial(CurrentCall(th).client)
    /\ thread_pc' = [thread_pc EXCEPT ![th] = "writing"]
    /\ UNCHANGED <<client_lock, programs, op_idx, thread_got>>
    /\ UNCHANGED slot_other_vars

(* set_uc_function_client: the assignment is complete *)
WriteEnd(th) ==
    /\ thread_pc[th] = "writing"
    /\ uc_function_client' = CurrentCall(th).client
    /\ thread_pc' = [thread_pc EXCEPT ![th] = "unlock"]
    /\ UNCHANGED <<client_lock, programs, op_idx, thread_got>>
    /\ UNCHANGED slot_other_vars

(* get_uc_function_client: the reference is read *)
Read(th) ==
    /\ thread_pc[th] = "locked"
    /\ CurrentCall(th).op = "get_uc_function_client"
    /\ thread_got' = [thread_got EXCEPT ![th] = Append(@, uc_function_client)]
    /\ thread_pc' = [thread_pc EXCEPT ![th] = "unlock"]
    /\ UNCHANGED <<uc_function_client, client_lock, programs, op_idx>>
    /\ UNCHANGED slot_other_vars

(* leaving the guarded section; the call returns *)
Release(th) ==
    /\ thread_pc[th] = "unlock"
    /\ client_lock' = 0
    /\ thread_pc' = [thread_pc EXCEPT ![th] = "call"]
    /\ op_idx' = [op_idx EXCEPT ![th] = @ + 1]
    /\ UNCHANGED <<uc_function_client, programs, thread_got>>
    /\ UNCHANGED slot_other_vars

InitSlot ==
    /\ function_info = None
    /\ parameters = <<>>
    /\ StmtIdle
    /\ ExecIdle
    /\ IntervalIdle
    /\ ValidateIdle
    /\ DocIdle
    /\ CatalogIdle
    /\ uc_function_client = None
    /\ client_lock = 0
    /\ programs \in {p \in [Threads -> UNION {ProgramsOf(th) : th \in Threads}] :
                        \A th \in Threads : p[th] \in ProgramsOf(th)}
    /\ thread_pc = [th \in Threads |-> "call"]
    /\ op_idx = [th \in Threads |-> 1]
    /\ thread_got = [th \in Threads |-> <<>>]

NextSlot ==
    \E th \in Threads :
        Acquire(th) \/ WriteBegin(th) \/ WriteEnd(th) \/ Read(th) \/ Release(th)

SpecSlot == InitSlot /\ [][NextSlot]_vars

-----------------------------------------------------------------------------
(* Properties of parse_docstring (checked under SpecDoc and FairSpecDoc) *)

DocFinished == doc_pc \in {"returned", "raised"}
WhitespaceOnly == \A i \in DOMAIN docstring : docstring[i] \in {" ", "\n", "\t"}

(* C14: parse_docstring fails with the empty-docstring error for every input *)
(* that is empty or holds only whitespace, and for no input that holds       *)
(* another character.                                                        *)
C14_EmptyDocstring ==
    doc_pc /= "called" =>
        (WhitespaceOnly <=>
            (/\ doc_pc = "raised"
             /\ doc_result.t = "ValueError"
             /\ doc_result.msg = "Docstring is empty. Please provide a docstring "
                                 \o "with a function description."))

(* a newline and a space *)
C14_Witness ==
    /\ doc_pc = "raised"
    /\ docstring = <<"\n", " ">>
    /\ doc_result.t = "ValueError"

(* the lines of the trimmed input *)
DocLines == splitlines(strip(docstring))
IsHeader(l) == lstrip(l) \in {Args_chars, Arguments_chars, Returns_chars}
(* a section header comes before any line of description *)
NoDescriptionLine ==
    \E h \in DOMAIN DocLines :
        /\ IsHeader(DocLines[h])
        /\ \A j \in 1 .. (h - 1) : strip(DocLines[j]) = <<>>

(* C15: for an input that is not empty, parse_docstring fails with the       *)
(* missing-description error whenever the input has an Args or Returns       *)
(* section and no line of description, and every DocstringInfo it returns    *)
(* has a description that is not empty.                                      *)
C15_MissingDescription ==
    (DocFinished /\ ~WhitespaceOnly) =>
        /\ NoDescriptionLine
              => /\ doc_pc = "raised"
                 /\ doc_result.t = "ValueError"
                 /\ doc_result.msg = "Function description is missing in the docstring. "
                                     \o "Please provide a function description."
        /\ doc_pc = "returned"
              => /\ doc_result.t = "DocstringInfo"
                 /\ doc_result.description.chars /= <<>>
                 /\ \E i \in DOMAIN doc_result.description.chars :
                       doc_result.description.chars[i] /= " "

(* Args: with one described parameter and nothing else *)
C15_Witness ==
    /\ doc_pc = "raised"
    /\ docstring = Args_chars \o <<"\n", " ", "x", ":", " ", "a">>
    /\ doc_result.msg = "Function description is missing in the docstring. "
                        \o "Please provide a function description."

HasColon(l) == \E i \in DOMAIN l : l[i] = ":"
Indent(l) == Len(l) - Len(lstrip(l))

(* the lines of the input that list the parameter n *)
Listings(n) ==
    {i \in DOMAIN lines : HasColon(lines[i]) /\ ParamName(strip(lines[i])) = n}
ListedNames == {<<"x">>, <<"y">>, <<"k">>}
NothingAfterColon(l) == strip(SubSeq(l, find(l, ":") + 1, Len(l))) = <<>>

(* the line after line i closes its entry: a blank line (the end of the      *)
(* input is read as one), a section header, a dedent or the next parameter   *)
ClosedAfter(i) ==
    /\ i < Len(lines)
    /\ LET nxt == lines[i + 1]
       IN  \/ strip(nxt) = <<>>
           \/ IsHeader(nxt)
           \/ Indent(nxt) < Indent(lines[i])
           \/ Indent(nxt) = Indent(lines[i]) /\ HasColon(nxt)

Absent(n) == \A i \in DOMAIN parsed_params : parsed_params[i].k /= n

(* C16: no key of params maps to an empty string, and a parameter listed     *)
(* with nothing after its colon and no continuation line is absent from      *)
(* params, whether its entry is closed by the next parameter, a blank line,  *)
(* a section header, a dedent or the end of the input.                       *)
C16_NoEmptyParams ==
    doc_pc /= "called" =>
        /\ \A i \in DOMAIN parsed_params : parsed_params[i].v /= <<>>
        /\ \A n \in ListedNames : \A i \in Listings(n) :
              (Listings(n) = {i} /\ NothingAfterColon(lines[i]) /\ ClosedAfter(i))
                  => Absent(n)
(* C16 fails on the description "D", "Args:", the entry " x:", a blank line  *)
(* and the line " m": the blank line leaves the entry open and the later     *)
(* line becomes the description of x                                         *)
C16_FailingInput ==
    /\ doc_pc = "returned"
    /\ lines = <<<<"D">>, Args_chars, <<" ", "x", ":">>, <<>>, <<" ", "m">>, <<>>>>
    /\ doc_result.params = <<[k |-> <<"x">>, v |-> <<"m">>]>>

(* the line the loop is about to read *)
AtLine == doc_pc = "loop" /\ line_idx <= Len(lines)
ThisLine == lines[line_idx]
BaseIndent == IF IsNone(param_indent) THEN Indent(ThisLine) ELSE param_indent.v

(* a line of the ARGS section that neither is blank nor ends the section *)
ArgsBodyLine ==
    /\ AtLine
    /\ state = "ARGS"
    /\ strip(ThisLine) /= <<>>
    /\ lstrip(ThisLine) /= Returns_chars
    /\ Indent(ThisLine) >= BaseIndent

(* the text before the first colon, without a closing "(type)" *)
NameBeforeColon(l) ==
    LET before == strip(SubSeq(l, 1, find(l, ":") - 1))
    IN  IF before /= <<>> /\ before[Len(before)] = ")" /\ find(before, "(") /= 0
        THEN strip(SubSeq(before, 1, find(before, "(") - 1))
        ELSE before
TextAfterColon(l) == strip(SubSeq(l, find(l, ":") + 1, Len(l)))
ParamOpen == ~IsNone(current_param) /\ current_param.chars /= <<>>

(* C18: in the ARGS section a line at exactly the base indent that contains  *)
(* a colon starts a new parameter, named by the text before the first colon  *)
(* without a trailing parenthesized type; a line indented deeper than the    *)
(* base indent, or without a colon, never starts a parameter, even when it   *)
(* contains colons, and is appended to the description lines of the open     *)
(* parameter, which are joined with single spaces when the entry is stored.  *)
C18_ParameterLines ==
    [][ArgsBodyLine =>
         IF Indent(ThisLine) = BaseIndent /\ HasColon(ThisLine)
         THEN /\ current_param' = Str(NameBeforeColon(ThisLine))
              /\ param_description_lines' =
                    IF TextAfterColon(ThisLine) = <<>> THEN <<>>
                    ELSE <<TextAfterColon(ThisLine)>>
              /\ (ParamOpen /\ param_description_lines /= <<>>)
                    => \E i \in DOMAIN parsed_params' :
                          parsed_params'[i] =
                              [k |-> current_param.chars,
                               v |-> strip(join_spaces(param_description_lines))]
         ELSE /\ current_param' = current_param
              /\ parsed_params' = parsed_params
              /\ ParamOpen => param_description_lines' =
                                 Append(param_description_lines, strip(ThisLine))]_vars

(* " x: a" followed by the deeper line "  k: c", then " y (i): b" *)
C18_Witness ==
    /\ doc_pc = "loop"
    /\ state = "ARGS"
    /\ parsed_params = <<[k |-> <<"x">>, v |-> <<"a", " ", "k", ":", " ", "c">>]>>
    /\ current_param = Str(<<"y">>)
    /\ param_description_lines = <<<<"b">>>>
(* the words of a text: its maximal runs of characters that are not          *)
(* whitespace                                                                *)
RECURSIVE Words(_)
Words(c) ==
    LET t == lstrip(c)
    IN  IF t = <<>> THEN <<>>
        ELSE LET stop == IF \E i \in DOMAIN t : IsSpace(t[i])
                         THEN CHOOSE i \in DOMAIN t :
                                 IsSpace(t[i]) /\ \A j \in 1 .. (i - 1) : ~IsSpace(t[j])
                         ELSE Len(t) + 1
             IN  <<SubSeq(t, 1, stop - 1)>> \o Words(SubSeq(t, stop, Len(t)))

(* the words of the description, of each parameter description in the order  *)
(* of params, and of the returns text                                        *)
RECURSIVE ParamWords(_)
ParamWords(ps) ==
    IF ps = <<>> THEN <<>> ELSE Words(ps[1].v) \o ParamWords(Tail(ps))
RejoinedWords ==
    Words(doc_result.description.chars)
        \o ParamWords(doc_result.params)
        \o (IF IsNone(doc_result.returns) THEN <<>> ELSE Words(doc_result.returns.chars))

(* the layout of the two supported styles, read off the lines of the trimmed *)
(* input: description lines, then at most one Args: or Arguments: section,   *)
(* then at most one Returns: section                                         *)
IsArgsHeader(l) == lstrip(l) \in {Args_chars, Arguments_chars}
IsReturnsHeader(l) == lstrip(l) = Returns_chars
IsBlank(l) == strip(l) = <<>>
ArgsHeaders == {i \in DOMAIN DocLines : IsArgsHeader(DocLines[i])}
ReturnsHeaders == {i \in DOMAIN DocLines : IsReturnsHeader(DocLines[i])}
ArgsAt == IF ArgsHeaders = {} THEN 0 ELSE CHOOSE i \in ArgsHeaders : TRUE
ReturnsAt == IF ReturnsHeaders = {} THEN 0 ELSE CHOOSE i \in ReturnsHeaders : TRUE
ArgsBody ==
    IF ArgsAt = 0 THEN {}
    ELSE (ArgsAt + 1) .. (IF ReturnsAt = 0 THEN Len(DocLines) ELSE ReturnsAt - 1)
ReturnsBody == IF ReturnsAt = 0 THEN {} ELSE (ReturnsAt + 1) .. Len(DocLines)
ArgsBase == Indent(DocLines[ArgsAt + 1])
(* the lines that open an entry of the Args section *)
Entries ==
    {j \in ArgsBody : /\ ~IsBlank(DocLines[j])
                      /\ Indent(DocLines[j]) = ArgsBase
                      /\ HasColon(DocLines[j])}
FollowsStyle ==
    /\ DocLines /= <<>>
    /\ ~IsHeader(DocLines[1])
    /\ Cardinality(ArgsHeaders) <= 1
    /\ Cardinality(ReturnsHeaders) <= 1
    /\ (ArgsAt /= 0 /\ ReturnsAt /= 0) => ArgsAt < ReturnsAt
    /\ ArgsBody /= {} => (ArgsAt + 1) \in Entries
    /\ \A j \in ArgsBody :
          \/ IsBlank(DocLines[j])
          \/ /\ Indent(DocLines[j]) >= ArgsBase
             /\ j \notin Entries => ~IsBlank(DocLines[j - 1])
    /\ \A j \in Entries :
          /\ NameBeforeColon(DocLines[j]) /= <<>>
          /\ \A m \in Entries :
                NameBeforeColon(DocLines[m]) = NameBeforeColon(DocLines[j]) => m = j
    /\ \A j, m \in ReturnsBody :
          (j < m /\ ~IsBlank(DocLines[j]) /\ ~IsBlank(DocLines[m]))
              => Indent(DocLines[m]) >= Indent(DocLines[j])

(* the words of the input *)
OriginalWords == Words(docstring)
(* the words of the input without the section headers and without the name   *)
(* and type of each entry                                                    *)
RECURSIVE TextWordsFrom(_)
TextWordsFrom(j) ==
    IF j > Len(DocLines) THEN <<>>
    ELSE (IF j \in {ArgsAt, ReturnsAt} THEN <<>>
          ELSE IF j \in Entries THEN Words(TextAfterColon(DocLines[j]))
          ELSE Words(DocLines[j]))
         \o TextWordsFrom(j + 1)

(* C17 as stated: for every docstring that is not empty and follows the two  *)
(* supported styles, the description, each parameter description and the     *)
(* returns text joined with single spaces reproduce the original text modulo *)
(* whitespace.                                                               *)
C17_RoundTrip ==
    (doc_pc = "returned" /\ FollowsStyle) => RejoinedWords = OriginalWords

(* C17, amended: for every docstring that is not empty and follows the two   *)
(* supported styles, the description, each parameter description and the     *)
(* returns text joined with single spaces reproduce, modulo whitespace, the  *)
(* original text without its section header lines and without the name,      *)
(* type and colon that open each entry of the Args section.                  *)
C17_RoundTripOfText ==
    (doc_pc = "returned" /\ FollowsStyle) => RejoinedWords = TextWordsFrom(1)

(* a description, two parameters, one with a type and one with a second      *)
(* line, or a parameter and a returns text                                   *)
C17_Witness ==
    /\ doc_pc = "returned"
    /\ FollowsStyle
    /\ lines = <<<<"D">>, Args_chars, <<" ", "x", ":", " ", "a">>, Returns_chars,
                 <<" ", "m">>, <<>>>>
    /\ RejoinedWords = <<<<"D">>, <<"a">>, <<"m">>>>
(* a line, not blank, indented less than the base indent that an earlier     *)
(* line of the section fixed                                                 *)
DedentInArgs ==
    /\ AtLine /\ state = "ARGS" /\ ~IsBlank(ThisLine)
    /\ ~IsNone(param_indent) /\ Indent(ThisLine) < param_indent.v
DedentInReturns ==
    /\ AtLine /\ state = "RETURNS" /\ ~IsBlank(ThisLine)
    /\ ~IsNone(return_indent) /\ Indent(ThisLine) < return_indent.v
(* the first line, not blank and not a header, of a section *)
FirstInArgs ==
    /\ AtLine /\ state = "ARGS" /\ ~IsBlank(ThisLine)
    /\ IsNone(param_indent) /\ ~IsReturnsHeader(ThisLine)
FirstInReturns ==
    /\ AtLine /\ state = "RETURNS" /\ ~IsBlank(ThisLine) /\ IsNone(return_indent)

(* C24: in the ARGS and RETURNS sections the first non-blank line fixes the  *)
(* base indent of the section; a later line indented less than the base     *)
(* indent ends the section, flushes the open parameter or the return text,   *)
(* and is dispatched again: an Args: or Arguments: line opens an ARGS        *)
(* section, a Returns: line opens a RETURNS section, any other line ends the *)
(* parse of sections, and the base indent of the section that is opened is   *)
(* unset, to be fixed afresh by its first line.                              *)
C24_DedentRedispatch ==
    [][/\ FirstInArgs => param_indent' = PyInt(Indent(ThisLine))
       /\ FirstInReturns => return_indent' = PyInt(Indent(ThisLine))
       /\ (DedentInArgs \/ DedentInReturns) =>
             /\ state' = IF IsArgsHeader(ThisLine) THEN "ARGS"
                         ELSE IF IsReturnsHeader(ThisLine) THEN "RETURNS"
                         ELSE "END"
             /\ state' = "ARGS" => IsNone(param_indent')
             /\ state' = "RETURNS" => IsNone(return_indent')
             /\ (DedentInArgs /\ ParamOpen /\ param_description_lines /= <<>>)
                   => \E i \in DOMAIN parsed_params' :
                         parsed_params'[i] =
                             [k |-> current_param.chars,
                              v |-> strip(join_spaces(param_description_lines))]
             /\ (DedentInReturns /\ return_description_lines /= <<>>)
                   => returns' = Str(strip(join_spaces(return_description_lines)))]_vars

Rank(st) ==
    IF st = "DESCRIPTION" THEN 0 ELSE IF st = "ARGS" THEN 1 ELSE IF st = "RETURNS" THEN 2 ELSE 3
InLoop == doc_pc = "loop"

(* C25 as stated: the state of the parser only advances along the order      *)
(* DESCRIPTION, ARGS, RETURNS, END; no line moves it to an earlier state.    *)
C25_StateOnlyAdvances ==
    [][InLoop => Rank(state') >= Rank(state)]_vars

(* C25, amended: no line moves the parser to an earlier state of the order   *)
(* DESCRIPTION, ARGS, RETURNS, END, except that an Args: or Arguments: line  *)
(* indented less than the base indent of the RETURNS section moves it from   *)
(* RETURNS to ARGS; the parser never returns to DESCRIPTION and never leaves *)
(* END.                                                                      *)
C25_StateAdvancesButReopenedArgs ==
    [][InLoop =>
          \/ Rank(state') >= Rank(state)
          \/ /\ state = "RETURNS"
             /\ state' = "ARGS"
             /\ DedentInReturns
             /\ IsArgsHeader(ThisLine)]_vars

(* "Returns:", " m", then "Args:" has been read: ARGS after RETURNS *)
C25_Witness ==
    /\ doc_pc = "loop"
    /\ state = "ARGS"
    /\ line_idx = 4
    /\ lines[1] = Returns_chars
    /\ lines[2] = <<" ", "m">>
    /\ lines[3] = Args_chars
    /\ return_indent = PyInt(1)

(* C29: once parse_docstring is in the END state, which it enters when a     *)
(* dedented line that is not a section header closes an ARGS or RETURNS      *)
(* section, no later line, not even an Args: or Returns: header, and not the *)
(* end of the input, changes the state, the description, the params mapping  *)
(* or the returns text.                                                      *)
C29_EndAbsorbing ==
    [][/\ (InLoop /\ state = "END") =>
             /\ state' = "END"
             /\ description_lines' = description_lines
             /\ parsed_params' = parsed_params
             /\ returns' = returns
       /\ (InLoop /\ state /= "END" /\ state' = "END") =>
             /\ DedentInArgs \/ DedentInReturns
             /\ ~IsHeader(ThisLine)]_vars

(* END, and the line just read there was a Returns: header *)
C29_Witness ==
    /\ doc_pc = "loop"
    /\ state = "END"
    /\ line_idx > 2
    /\ lines[line_idx - 1] = Returns_chars
    /\ lines[line_idx - 2] = <<"D">>
-----------------------------------------------------------------------------
(* Further properties of _execute_uc_function (checked under Spec and       *)
(* FairSpec)                                                                 *)

(* C26: a call of _execute_uc_function leaves the mapping of the caller      *)
(* unchanged, so that the successive calls made with one mapping, also one   *)
(* that carries execution options under the reserved key, submit the same    *)
(* statement with the same execution options.                                *)
C26_ParametersUnchanged ==
    /\ [][parameters' = parameters]_vars
    /\ [](\A i, j \in DOMAIN submitted : submitted[i] = submitted[j])

LastStatus == response.status
LastSucceeded == ~IsNone(LastStatus) /\ LastStatus.state = "SUCCEEDED"
IsSuccess(r) == IsNone(r.error) /\ ~IsNone(r.format)
IsFailure(r) == ~IsNone(r.error) /\ IsNone(r.format) /\ IsNone(r.value)

(* C30: _execute_uc_function returns a success result, with a format and no  *)
(* error, only if the last observed status is SUCCEEDED; it polls only while *)
(* the status is PENDING and the statement has an id, so a last status that  *)
(* is absent or FAILED, CANCELED, CLOSED or RUNNING, and a first PENDING     *)
(* response without statement id, give an error result; every result has an *)
(* error or a format, never both.                                            *)
C30_SuccessOnlyWhenSucceeded ==
    /\ pc \in {"polling", "asking"} =>
          /\ ~IsNone(LastStatus)
          /\ LastStatus.state = "PENDING"
          /\ ~IsNone(response.statement_id)
    /\ \A i \in DOMAIN events :
          (events[i].op = "get_statement" /\ i < Len(events)) => events[i].state = "PENDING"
    /\ pc = "done" =>
          /\ IsSuccess(result) => LastSucceeded
          /\ ~LastSucceeded => IsFailure(result)
          /\ IsSuccess(result) \/ IsFailure(result)

(* the first response is PENDING without a statement id: an error result,    *)
(* without a poll                                                            *)
C30_Witness ==
    /\ pc = "done"
    /\ response = StatementResponse(StatementStatus("PENDING", None), None, None, None)
    /\ events = <<>>
    /\ IsFailure(result)
-----------------------------------------------------------------------------
(* A further property of get_execute_function_sql_stmt (checked under        *)
(* SpecStmt)                                                                 *)

DistinctDeclaredNames ==
    \A i, j \in DOMAIN Declared : Declared[i].name = Declared[j].name => i = j
Bindings == statement.parameters
(* the names after a colon in the statement text: function_name of the call  *)
(* pattern of a scalar function, the name of each provided parameter, and    *)
(* <name>_type for a provided ARRAY, MAP or STRUCT parameter                 *)
Placeholders ==
    (IF function_info.data_type /= "TABLE_TYPE" THEN {"function_name"} ELSE {})
    \cup (IF parameters = <<>> THEN {}
          ELSE {Declared[i].name : i \in {j \in DOMAIN Declared : Provided(j)}}
               \cup {Declared[i].name \o "_type"
                     : i \in {j \in DOMAIN Declared :
                                 /\ Provided(j)
                                 /\ Declared[j].type_name \in {"ARRAY", "MAP", "STRUCT"}}})

(* C27: in every ParameterizedStatement built for a function whose declared  *)
(* parameter names are pairwise distinct, the binding names are pairwise     *)
(* distinct and every placeholder of the statement text refers to exactly    *)
(* one binding: the generated function_name and <p>_type bindings never      *)
(* clash with the binding of a declared parameter.                           *)
C27_BindingNamesDistinct ==
    (stmt_pc = "done" /\ DistinctDeclaredNames) =>
        /\ \A i, j \in DOMAIN Bindings : Bindings[i].name = Bindings[j].name => i = j
        /\ \A ph \in Placeholders :
              Cardinality({i \in DOMAIN Bindings : Bindings[i].name = ph}) = 1

-----------------------------------------------------------------------------
(* Properties of get_function and process_function_names (checked under      *)
(* SpecCatalog)                                                              *)

Dots(name) == {i \in DOMAIN name : name[i] = "."}
(* the characters after the last dot *)
LastSegment(name) ==
    {name[i] : i \in {j \in DOMAIN name : \A d \in Dots(name) : d < j}}
WellShaped(name) == Cardinality(Dots(name)) = 2
GetReturned == ~IsNone(get_result)
MalformedNameError(r) ==
    /\ r.t = "ValueError"
    /\ r.msg = "Invalid function name: {function_name}, expecting format "
               \o "<catalog_name>.<schema_name>.<function_name>."

(* the requests create_function has sent: a behaviour calls get_function     *)
(* itself or through create_function, not both                               *)
CreateRequests ==
    SelectSeq(remote_calls, LAMBDA r : r.op \in {"spark.sql", "functions.get"})
GetRequests == SelectSeq(remote_calls, LAMBDA r : r.op = "functions.get")

(* C21: get_function sends a request to the remote catalog only for a name   *)
(* of three dot-separated segments whose last segment holds no "*"; a name   *)
(* of another number of segments fails with the malformed-name error and a   *)
(* name with "*" in its function segment fails with the wildcard error, both *)
(* before any request has been sent, by get_function or by the call of       *)
(* create_function that made it; process_function_names fails on a name only *)
(* when it is not of three segments, so it accepts the wildcard segment and  *)
(* lists.                                                                    *)
C21_GetFunctionShape ==
    /\ GetReturned =>
          /\ ~WellShaped(get_name) =>
                /\ MalformedNameError(get_result)
                /\ get_result.function_name = get_name
                /\ remote_calls = <<>>
          /\ (WellShaped(get_name) /\ "*" \in LastSegment(get_name)) =>
                /\ get_result = WildcardError
                /\ remote_calls = <<>>
          /\ (WellShaped(get_name) /\ "*" \notin LastSegment(get_name)) =>
                /\ get_result.t = "FunctionInfo"
                /\ remote_calls = <<FunctionsGet(get_name)>>
    /\ \A i \in DOMAIN GetRequests :
          /\ WellShaped(GetRequests[i].name)
          /\ "*" \notin LastSegment(GetRequests[i].name)
    /\ (MalformedNameError(create_result) \/ create_result = WildcardError) =>
          CreateRequests = <<>>
    /\ (names_pc = "raised" /\ name_idx > 0) =>
          /\ ~WellShaped(function_names[name_idx])
          /\ MalformedNameError(names_raised)
    /\ names_pc = "listing" =>
          /\ WellShaped(function_names[name_idx])
          /\ LastSegment(function_names[name_idx]) = {"*"}

(* create_function has run its statement, which names a function by one      *)
(* segment, and then failed on that name                                     *)
MalformedAfterStatement ==
    /\ MalformedNameError(create_result)
    /\ ~WellShaped(create_result.function_name)
    /\ CreateRequests = <<SparkSql(create_call.sql_function_body)>>

WildcardCount == Cardinality({i \in DOMAIN function_names : function_names[i] = Wildcard})
ListCalls == SelectSeq(remote_calls, LAMBDA r : r.op = "GET /api/2.1/unity-catalog/functions")
(* the list calls the remote catalog answered with no token *)
LastPages == {i \in DOMAIN ListCalls : IsNone(ListCalls[i].next_page_token)}
TokensChained ==
    \A i \in DOMAIN ListCalls :
        ListCalls[i].query.page_token
            = IF i = 1 THEN None ELSE ListCalls[i - 1].next_page_token
(* every function of every page received is a key of tools_dict *)
VisitedAreKeys ==
    \A i \in DOMAIN ListCalls :
        \A j \in DOMAIN ListCalls[i].functions :
            DictHas(tools_dict, ListCalls[i].functions[j])
StopsAtNone ==
    /\ ListCalls' /= ListCalls =>
          /\ names_pc = "listing"
          /\ Len(ListCalls') = Len(ListCalls) + 1
          /\ names_pc' = "listing" <=>
                ~IsNone(ListCalls'[Len(ListCalls')].next_page_token)
          /\ names_pc' /= "listing" => names_pc' = "loop" /\ name_idx' = name_idx + 1
    /\ (names_pc = "listing" /\ names_pc' /= "listing") => ListCalls' /= ListCalls
EntriesKept ==
    \A k \in DictKeys(tools_dict) :
        DictHas(tools_dict', k) /\ DictGet(tools_dict', k) = DictGet(tools_dict, k)

(* C28: the list_functions calls of process_function_names form a chain: the *)
(* first carries no page token and each later one carries the token the      *)
(* previous page returned; the listing of a wildcard name goes on exactly    *)
(* while the page just received has a token, so a returned call has received *)
(* one page without a token for each wildcard name; every function of every  *)
(* page received is a key of tools_dict, whatever create_function changes in *)
(* the catalog meanwhile; no step changes or removes an entry that           *)
(* tools_dict already holds.                                                 *)
C28_PagedListing ==
    /\ [](TokensChained)
    /\ [][StopsAtNone /\ EntriesKept]_vars
    /\ [](VisitedAreKeys)
    /\ [](names_pc = "returned" => Cardinality(LastPages) = WildcardCount)

(* a returned call that read three pages, each with the token of the page    *)
(* before, added g from a page and h, created between two pages, and kept    *)
(* the caller's tool for f                                                   *)
C28_Witness ==
    /\ names_pc = "returned"
    /\ Len(ListCalls) = 3
    /\ IsNone(ListCalls[1].query.page_token)
    /\ ListCalls[2].query.page_token = PageToken(1)
    /\ ListCalls[3].query.page_token = PageToken(2)
    /\ IsNone(ListCalls[3].next_page_token)
    /\ \E i \in DOMAIN remote_calls :
          /\ 1 < i
          /\ i < Len(remote_calls)
          /\ remote_calls[i].op = "spark.sql"
    /\ DictHas(tools_dict, Name_g)
    /\ DictHas(tools_dict, Name_h)
    /\ DictHas(tools_dict, Name_f)
    /\ DictGet(tools_dict, Name_f) = KeptTool

-----------------------------------------------------------------------------
(* Properties of set_uc_function_client and get_uc_function_client (checked  *)
(* under SpecSlot)                                                           *)

InSection(th) == thread_pc[th] \in {"locked", "writing", "unlock"}
(* the clients some thread passes to set_uc_function_client *)
PassedClients ==
    UNION {{programs[th][i].client : i \in DOMAIN programs[th]} : th \in Threads} \ {None}
Alone(th) == \A other \in Threads \ {th} : programs[other] = <<>>
(* what the gets of a program return when no other call runs in between *)
RECURSIVE SequentialGets(_, _)
SequentialGets(program, held) ==
    IF program = <<>> THEN <<>>
    ELSE IF Head(program).op = "set_uc_function_client"
    THEN SequentialGets(Tail(program), Head(program).client)
    ELSE <<held>> \o SequentialGets(Tail(program), held)
IsPrefix(a, b) == Len(a) <= Len(b) /\ a = SubSeq(b, 1, Len(a))

(* C22: at most one thread is inside a get or set call's guarded section at  *)
(* a time; every value a get has returned is None or a client that some set  *)
(* call passes, never a reference whose assignment is under way; and the     *)
(* gets of a thread that runs alone return what the latest set before them   *)
(* stored: c after set(c), None after set(None).                             *)
C22_MutuallyExclusive ==
    /\ Cardinality({th \in Threads : InSection(th)}) <= 1
    /\ \A th \in Threads : \A i \in DOMAIN thread_got[th] :
          \/ thread_got[th][i] = None
          \/ thread_got[th][i] \in PassedClients
    /\ \A th \in Threads :
          Alone(th) => IsPrefix(thread_got[th], SequentialGets(programs[th], None))

(* every thread has set its client and read a client back *)
C22_Witness ==
    /\ \A th \in Threads : programs[th] = <<SetCall(MockClient(th)), GetCall>>
    /\ \A th \in Threads : Len(thread_got[th]) = 1 /\ thread_got[th][1] \in PassedClients

EachRunsClientCheck ==
    \A th \in Threads : programs[th] = <<SetCall(MockClient(th)), GetCall>>

(* C23: when every thread runs set_uc_function_client(c_i) followed by       *)
(* get_uc_function_client(), the get of each thread returns its own c_i.     *)
C23_OwnClient ==
    EachRunsClientCheck =>
        \A th \in Threads : \A i \in DOMAIN thread_got[th] :
            thread_got[th][i] = MockClient(th)

=============================================================================
